---- MODULE Spec2Model ----
(***************************************************************************)
(* State-machine model of the autotranslate run coordinator                *)
(* (index.ts: autotranslate, processTargetLanguage and its helpers,        *)
(* executeAllFileWrites) together with the record store (file-io.ts,       *)
(* formats/csv.ts) and the translation backend (translator.ts).            *)
(*                                                                         *)
(* Keys are modelled by naturals; their numeric order stands for the       *)
(* order of String.localeCompare.  A file is a record [exists, rows].      *)
(***************************************************************************)
EXTENDS Integers, Sequences, FiniteSets, TLC

----------------------------------------------------------------------------
(* Bounds of the model *)

MaxSrc == 3
MaxSrcMulti == 2
MaxFile == 2
MaxBatch == 2
MaxEvents == 3
MaxReq == 2
MaxStr == 2
MaxRec == 2

\* `config.batchSize ?? 15`
DefaultBatchSize == 15

----------------------------------------------------------------------------
(* Data *)

Keys == {1, 2, 3}
Hashes == {"hA", "hB"}
Langs == {"fr", "de"}
Runs == {1, 2}
None == [none |-> TRUE]

\* no function of the library has been called; the call has not returned
NoCall == [fn |-> "none"]
NoReturn == [pending |-> TRUE]

\* records.ts: SourceRecord.  The hash is derived from text+description
\* when the source is read; keys 1 and 3 carry the same text and
\* description and therefore the same hash.
SourceRecordOf ==
  [k \in Keys |-> [key |-> k,
                   text |-> IF k = 2 THEN "v2" ELSE "v1",
                   hash |-> IF k = 2 THEN "hB" ELSE "hA"]]

\* records.ts: TargetRecord, as a row of a target file, for the keys 1 and 2
\* with a current or a stale hash.  A row whose text column is blank may
\* stand in a hand-edited file.
TargetRows ==
  {[key |-> k, text |-> "hand", hash |-> h] : k \in {1, 2}, h \in Hashes}
    \cup {[key |-> 1, text |-> "", hash |-> "hA"]}

SeqsUpTo(S, n) == UNION {[1..m -> S] : m \in 0..n}

NoDup(s) == \A i, j \in DOMAIN s : i # j => s[i] # s[j]

Range(s) == {s[i] : i \in DOMAIN s}

AbsentFile == [exists |-> FALSE, rows |-> <<>>]

FileOf(rows) == [exists |-> TRUE, rows |-> rows]

\* config.ts: the source files the model reads: 1..MaxSrc records with
\* unique keys, in any order.
SourceFiles ==
  {[i \in DOMAIN ks |-> SourceRecordOf[ks[i]]] :
     ks \in {s \in SeqsUpTo(Keys, MaxSrc) : s # <<>> /\ NoDup(s)}}

\* The target files of a configuration with one target: absent, or any
\* sequence of at most MaxFile rows (duplicate keys included).
SingleTargetFiles == {AbsentFile} \cup {FileOf(r) : r \in SeqsUpTo(TargetRows, MaxFile)}

\* The target files of a configuration with two targets: absent, in sync
\* with the source, stale for its first key, or in sync with an orphan row
\* (key 4 is never a key of the source).
MultiTargetFiles(src) ==
  {AbsentFile,
   FileOf([i \in DOMAIN src |-> [key |-> src[i].key, text |-> "hand", hash |-> src[i].hash]]),
   FileOf([i \in DOMAIN src |-> [key |-> src[i].key, text |-> "hand",
                                 hash |-> IF i > 1 THEN src[i].hash
                                          ELSE IF src[i].hash = "hA" THEN "hB" ELSE "hA"]]),
   FileOf([i \in DOMAIN src |-> [key |-> src[i].key, text |-> "hand", hash |-> src[i].hash]]
          \o <<[key |-> 4, text |-> "hand", hash |-> "hA"]>>)}

----------------------------------------------------------------------------
(* Record store *)

RECURSIVE SelectRows(_)
\* formats/csv.ts parseTarget: rows with an empty key or text are skipped
SelectRows(rows) ==
  IF rows = <<>> THEN <<>>
  ELSE LET rest == SelectRows(Tail(rows))
       IN IF Head(rows).text = "" THEN rest ELSE <<Head(rows)>> \o rest

\* file-io.ts readTargetFile: an absent file reads as the empty sequence
readTargetFile(file) == IF file.exists THEN SelectRows(file.rows) ELSE <<>>

\* file-io.ts writeTargetFile: the file is overwritten with the records
writeTargetFile(records) == FileOf(records)

----------------------------------------------------------------------------
(* Translation backend *)

\* translator.ts translate: the text the backend returns for a source text
Translation(text) == IF text = "v1" THEN "t1" ELSE "t2"

----------------------------------------------------------------------------
(* Reconciliation (pure functions of index.ts) *)

RECURSIVE MapOfRecords(_)
\* new Map(); for (record of records) map.set(record.key, record)
MapOfRecords(records) ==
  IF records = <<>> THEN <<>>
  ELSE LET n == Len(records)
           front == MapOfRecords(SubSeq(records, 1, n - 1))
       IN (records[n].key :> records[n]) @@ front

HasKey(map, k) == k \in DOMAIN map

RECURSIVE KeyOrder(_)
\* iteration order of a Map: the order of first insertion of each key
KeyOrder(records) ==
  IF records = <<>> THEN <<>>
  ELSE LET n == Len(records)
           front == KeyOrder(SubSeq(records, 1, n - 1))
       IN IF records[n].key \in Range(front) THEN front
          ELSE Append(front, records[n].key)

RECURSIVE FilterValid(_, _)
\* existingRecords.filter((record) => validKeys.has(record.key))
FilterValid(records, validKeys) ==
  IF records = <<>> THEN <<>>
  ELSE LET rest == FilterValid(Tail(records), validKeys)
       IN IF Head(records).key \in validKeys THEN <<Head(records)>> \o rest ELSE rest

\* readAndFilterExistingRecords
readAndFilterExistingRecords(file, srcMap) ==
  LET existingRecords == readTargetFile(file)
      filtered == FilterValid(existingRecords, DOMAIN srcMap)
  IN [filteredExisting |-> filtered,
      existingMap |-> MapOfRecords(existingRecords),
      removedCount |-> Len(existingRecords) - Len(filtered)]

RECURSIVE CandidatesFromMissingOnly(_, _, _)
\* CandidatesFrom without the comparison of the hashes
CandidatesFromMissingOnly(keys, srcMap, existingMap) ==
  IF keys = <<>> THEN <<>>
  ELSE LET k == Head(keys)
           rest == CandidatesFromMissingOnly(Tail(keys), srcMap, existingMap)
       IN IF ~HasKey(existingMap, k)
          THEN <<[key |-> k, sourceRecord |-> srcMap[k]]>> \o rest
          ELSE rest

RECURSIVE CandidatesFrom(_, _, _)
\* the loop of identifyTranslationCandidates over the entries of sourceMap
CandidatesFrom(keys, srcMap, existingMap) ==
  IF keys = <<>> THEN <<>>
  ELSE LET k == Head(keys)
           rest == CandidatesFrom(Tail(keys), srcMap, existingMap)
       IN IF ~HasKey(existingMap, k) \/ srcMap[k].hash # existingMap[k].hash
          THEN <<[key |-> k, sourceRecord |-> srcMap[k]]>> \o rest
          ELSE rest

\* identifyTranslationCandidates
identifyTranslationCandidates(sourceRecs, existingMap) ==
  CandidatesFrom(KeyOrder(sourceRecs), MapOfRecords(sourceRecs), existingMap)

\* preserveExistingTranslations without the comparison of the hashes
preserveWithoutHashCheck(filteredExisting, srcMap) == filteredExisting

RECURSIVE preserveExistingTranslations(_, _)
\* preserveExistingTranslations
preserveExistingTranslations(filteredExisting, srcMap) ==
  IF filteredExisting = <<>> THEN <<>>
  ELSE LET r == Head(filteredExisting)
           rest == preserveExistingTranslations(Tail(filteredExisting), srcMap)
       IN IF HasKey(srcMap, r.key) /\ srcMap[r.key].hash = r.hash
          THEN <<r>> \o rest
          ELSE rest

\* SortByKey that leaves the records in the order they were pushed
SortByKeyKeepOrder(s) == s

\* Array.prototype.sort with (a, b) => a.key.localeCompare(b.key), which is
\* stable: the record at index i moves to the position that counts the
\* records with a smaller key and the records with its key up to index i
SortByKey(s) ==
  LET Position(i) ==
        Cardinality({j \in DOMAIN s :
                       s[j].key < s[i].key \/ (s[j].key = s[i].key /\ j <= i)})
  IN [n \in DOMAIN s |-> s[CHOOSE i \in DOMAIN s : Position(i) = n]]

----------------------------------------------------------------------------
(* Translation driver helpers *)

Min(a, b) == IF a < b THEN a ELSE b

\* Chunk that holds the first item of the slice only: candidates.slice(i, i + 1)
ChunkOfOne(cands, b, bi) == SubSeq(cands, bi * b + 1, Min(bi * b + 1, Len(cands)))

\* Chunk that restarts at the first candidate: candidates.slice(0, i + batchSize)
ChunkFromStart(cands, b, bi) == SubSeq(cands, 1, Min((bi + 1) * b, Len(cands)))

\* candidates.slice(i, i + batchSize) for the batch with index bi (0-based)
Chunk(cands, b, bi) == SubSeq(cands, bi * b + 1, Min((bi + 1) * b, Len(cands)))

\* number of entries of batches[]
NumBatches(cands, b) == (Len(cands) + b - 1) \div b

\* NewRecord with the hash taken from the translated text
NewRecordHashOfTranslation(key, sourceRecord) ==
  [key |-> key, text |-> Translation(sourceRecord.text),
   hash |-> IF Translation(sourceRecord.text) = "t1" THEN "hB" ELSE "hA"]

\* the TargetRecord pushed for a translated candidate
NewRecord(key, sourceRecord) ==
  [key |-> key, text |-> Translation(sourceRecord.text), hash |-> sourceRecord.hash]

\* FindSourceRecord that takes the source record of the first candidate
FindSourceRecordOfFirst(cands, key) == cands[1].sourceRecord

\* candidates.find((s) => s.key === key)?.sourceRecord
FindSourceRecord(cands, key) ==
  cands[CHOOSE i \in DOMAIN cands :
          cands[i].key = key /\ \A j \in DOMAIN cands : cands[j].key = key => i <= j].sourceRecord

RecordsOf(cands) == [i \in DOMAIN cands |-> NewRecord(cands[i].key, cands[i].sourceRecord)]

KeysOf(s) == [i \in DOMAIN s |-> s[i].key]

\* what translateIndividually returns for cands when every call of
\* translate succeeds: one record per candidate, pushed in candidate order
RECURSIVE IndividualRecords(_)
IndividualRecords(cands) ==
  IF cands = <<>> THEN <<>>
  ELSE <<[key |-> Head(cands).key,
          text |-> Translation(Head(cands).sourceRecord.text),
          hash |-> Head(cands).sourceRecord.hash]>> \o IndividualRecords(Tail(cands))

\* executeTranslations that always takes the batch driver
executeTranslationsBatched(b) == "batch"

\* the driver executeTranslations dispatches to
executeTranslations(b) == IF b = 1 THEN "individual" ELSE "batch"

----------------------------------------------------------------------------
(* Configuration *)

\* A number of the configuration, as the fraction num / den
Number(n, d) == [num |-> n, den |-> d]

\* Number.isInteger: false for undefined and for a fraction
IsInteger(x) == x # None /\ x.num % x.den = 0

\* the value of an integer of the configuration
IntegerOf(x) == x.num \div x.den

Target(l) == [language |-> l, file |-> l]

\* AutotranslateConfig: the configurations that pass validateConfig
ValidConfigs ==
  {[source |-> [file |-> "source"], targets |-> t, batchSize |-> Number(b, 1)] :
     t \in {<<Target("fr")>>, <<Target("fr"), Target("de")>>}, b \in 1..MaxBatch}
    \cup {[source |-> [file |-> "source"], targets |-> <<Target("fr")>>, batchSize |-> None]}

\* AutotranslateConfig: configurations with one setting missing or wrong
InvalidConfigs ==
  {[source |-> [file |-> ""], targets |-> <<Target("fr")>>, batchSize |-> Number(1, 1)],
   [source |-> [file |-> "source"], targets |-> <<>>, batchSize |-> Number(1, 1)],
   [source |-> [file |-> "source"], targets |-> <<[language |-> "", file |-> "fr"]>>,
    batchSize |-> Number(1, 1)],
   [source |-> [file |-> "source"],
    targets |-> <<Target("fr"), [language |-> "de", file |-> ""]>>,
    batchSize |-> Number(1, 1)]}
    \cup {[source |-> [file |-> "source"], targets |-> <<Target("fr")>>, batchSize |-> x] :
            x \in {Number(0, 1), Number(0 - 1, 1), Number(3, 2)}}

\* finalConfig of autotranslate
FinalConfig(c) ==
  [c EXCEPT !.batchSize = IF c.batchSize = None THEN Number(DefaultBatchSize, 1) ELSE @]

\* validateConfig without the test of config.targets.length
validateConfigSomeTargets(c) ==
  /\ c.source.file # ""
  /\ \A i \in DOMAIN c.targets : c.targets[i].language # "" /\ c.targets[i].file # ""
  /\ IsInteger(c.batchSize) /\ c.batchSize # None /\ IntegerOf(c.batchSize) >= 1

\* validateConfig: TRUE when it returns, FALSE when it throws
validateConfig(c) ==
  /\ c.source.file # ""
  /\ Len(c.targets) # 0
  /\ \A i \in DOMAIN c.targets : c.targets[i].language # "" /\ c.targets[i].file # ""
  /\ IsInteger(c.batchSize) /\ c.batchSize # None /\ IntegerOf(c.batchSize) >= 1

\* target.outputs of the configured targets: "fr" has two secondary
\* outputs, the first one of a format that is not registered
TargetOutputs(l) == IF l = "fr" THEN <<"fr.yaml", "fr.out">> ELSE <<>>

\* source.outputs
SourceOutputs == <<"src.out">>

OutputFiles == {"fr.yaml", "fr.out", "src.out"}

\* output.format of each secondary output
OutputFormat ==
  [f \in OutputFiles |->
     IF f = "fr.yaml" THEN "yaml"
     ELSE IF f = "fr.out" THEN "javascript-const" ELSE "java-properties"]

\* the formats registered in OutputFormatterRegistry
SupportedFormats == {"java-properties", "javascript-const", "csv"}

\* the outputs one call of executeTargetOutputFiles / executeSourceOutputFiles
\* writes when writeFileSync throws for the files of unwritable
GeneratedOutputs(outputs, unwritable) ==
  {f \in Range(outputs) : OutputFormat[f] \in SupportedFormats /\ f \notin unwritable}

\* records.map(...) of executeTargetOutputFiles / executeSourceOutputFiles
StringRecords(records) == [i \in DOMAIN records |-> [key |-> records[i].key, text |-> records[i].text]]

----------------------------------------------------------------------------
(* State *)

VARIABLES
  rawConfig,      \* the configuration autotranslate is called with
  targets,        \* config.targets, as the sequence of their languages
  batchSize,      \* finalConfig.batchSize
  sourceFile,     \* content of source.file
  targetFile,     \* content of target.file, per language
  outputFile,     \* content of each secondary output file
  run,            \* 1 + the number of runs of autotranslate that completed
  rpc,            \* position of autotranslate
  sourceRecords,  \* sourceRecords of the run
  wstep,          \* position inside the write phase
  pc,             \* position of processTargetLanguage, per language
  recon,          \* result of readAndFilterExistingRecords, per language
  candidates,     \* candidates, per language
  updatedRecords, \* updatedRecords (the preserved records), per language
  newRecords,     \* newRecords of the translation driver, per language
  batchIndex,     \* batchIndex of translateInBatches, per language
  pos,            \* index of the next item of the individual / fallback loop
  result,         \* ProcessingResult, per language
  callLog,        \* backend calls of the run, per language, in order
  written,        \* files written in the run
  fileAtStart,    \* targetFile as it was when the run started
  outputAtStart,  \* outputFile as it was when the run started
  failedOutputs,  \* secondary outputs whose generation logged an error in the run
  prevDone,       \* the previous run completed successfully
  isProcessing,   \* runWatchMode: isProcessing
  needsScan,      \* runWatchMode: needsScan
  events,         \* number of add and change events the watcher has emitted
  arrived,        \* number of events emitted while the present run was in progress
  orphan,         \* a pipeline of an earlier run is still in flight, per language
  call,           \* the library function called last, with its arguments
  ret             \* what that call returned or threw

vars == <<rawConfig, targets, batchSize, sourceFile, targetFile, outputFile, run,
          rpc, sourceRecords, wstep, pc, recon, candidates, updatedRecords,
          newRecords, batchIndex, pos, result, callLog, written, fileAtStart,
          outputAtStart, failedOutputs, prevDone, isProcessing, needsScan, events,
          arrived, orphan, call, ret>>

library == <<call, ret>>

watch == <<isProcessing, needsScan, events, arrived, orphan>>

config == <<rawConfig, targets, batchSize, sourceFile>>

pipeline == <<pc, recon, candidates, updatedRecords, newRecords, batchIndex, pos,
              result, callLog>>

sourceMap == MapOfRecords(sourceRecords)

TargetSet == Range(targets) \cap Langs

\* target.file of the target with language l; the files are named after the
\* language whose target they usually are
TargetFileOf(l) ==
  IF \E i \in DOMAIN rawConfig.targets : rawConfig.targets[i].language = l
  THEN rawConfig.targets[CHOOSE i \in DOMAIN rawConfig.targets :
                           rawConfig.targets[i].language = l].file
  ELSE l

\* The files are drawn in full for the valid configurations with an
\* explicit batchSize; the other configurations start without target files.
Init ==
  /\ rawConfig \in ValidConfigs \cup InvalidConfigs
  /\ targets = [i \in DOMAIN rawConfig.targets |-> rawConfig.targets[i].language]
  /\ batchSize = IntegerOf(FinalConfig(rawConfig).batchSize)
  /\ sourceFile \in SourceFiles
  /\ IF rawConfig \in ValidConfigs /\ rawConfig.batchSize # None
     THEN \/ /\ targets = <<"fr">>
             /\ targetFile \in [Langs -> SingleTargetFiles]
             /\ targetFile["de"] = AbsentFile
          \/ /\ targets = <<"fr", "de">>
             /\ Len(sourceFile) <= MaxSrcMulti
             /\ targetFile \in [Langs -> MultiTargetFiles(sourceFile)]
     ELSE targetFile = [l \in Langs |-> AbsentFile]
  /\ outputFile = [f \in OutputFiles |-> AbsentFile]
  /\ run = 1
  /\ rpc = "start"
  /\ sourceRecords = <<>>
  /\ wstep = 0
  /\ pc = [l \in Langs |-> IF l \in TargetSet THEN "idle" ELSE "off"]
  /\ recon = [l \in Langs |-> None]
  /\ candidates = [l \in Langs |-> <<>>]
  /\ updatedRecords = [l \in Langs |-> <<>>]
  /\ newRecords = [l \in Langs |-> <<>>]
  /\ batchIndex = [l \in Langs |-> 0]
  /\ pos = [l \in Langs |-> 1]
  /\ result = [l \in Langs |-> None]
  /\ callLog = [l \in Langs |-> <<>>]
  /\ written = {}
  /\ fileAtStart = targetFile
  /\ outputAtStart = outputFile
  /\ failedOutputs = {}
  /\ prevDone = FALSE
  /\ isProcessing = FALSE
  /\ needsScan = TRUE
  /\ events = 0
  /\ arrived = 0
  /\ orphan = [l \in Langs |-> FALSE]
  /\ call = NoCall
  /\ ret = NoReturn

----------------------------------------------------------------------------
(* autotranslate *)

\* autotranslate up to `await Promise.all`: it throws when validateConfig
\* does; otherwise the source is read and one processTargetLanguage is
\* started per target.
StartRun ==
  /\ rpc = "start"
  /\ IF validateConfig(FinalConfig(rawConfig))
     THEN /\ rpc' = "translating"
          /\ sourceRecords' = sourceFile
          /\ pc' = [l \in Langs |-> IF l \in TargetSet THEN "read" ELSE "off"]
     ELSE /\ rpc' = "rejected"
          /\ UNCHANGED <<sourceRecords, pc>>
  /\ UNCHANGED <<config, library, watch, targetFile, outputFile, failedOutputs, run, wstep, recon,
                 candidates, updatedRecords, newRecords, batchIndex, pos, result,
                 callLog, written, fileAtStart, outputAtStart, prevDone>>

\* a rejection of one pipeline that autotranslate swallows
RejectedBySwallowed(l) == rpc

\* Promise.all rejects with the first rejection
RejectedBy(l) == IF rpc = "translating" THEN "rejected" ELSE rpc

\* Reconcile that reports no change whenever there is no candidate, also
\* when records were removed
ReconcileIgnoringRemoved(l) ==
  /\ pc[l] = "read"
  /\ \E r \in {readAndFilterExistingRecords(targetFile[TargetFileOf(l)], sourceMap)} :
     \E cands \in {identifyTranslationCandidates(sourceRecords, r.existingMap)} :
     \E kept \in {preserveExistingTranslations(r.filteredExisting, sourceMap)} :
        /\ recon' = [recon EXCEPT ![l] = r]
        /\ candidates' = [candidates EXCEPT ![l] = cands]
        /\ IF Len(cands) = 0
           THEN /\ result' = [result EXCEPT ![l] = [updatedRecords |-> kept, hasChanges |-> FALSE]]
                /\ pc' = [pc EXCEPT ![l] = "done"]
                /\ UNCHANGED <<updatedRecords, rpc>>
           ELSE /\ updatedRecords' = [updatedRecords EXCEPT ![l] = kept]
                /\ UNCHANGED result
                /\ \E constructed \in BOOLEAN :
                     IF constructed
                     THEN /\ pc' = [pc EXCEPT ![l] = executeTranslations(batchSize)]
                          /\ UNCHANGED rpc
                     ELSE /\ pc' = [pc EXCEPT ![l] = "rejected"]
                          /\ rpc' = RejectedBy(l)
  /\ UNCHANGED <<config, library, watch, targetFile, outputFile, failedOutputs, run, sourceRecords, wstep,
                 newRecords, batchIndex, pos, callLog, written, fileAtStart, outputAtStart, prevDone>>

\* processTargetLanguage steps 1-3 (and 5 when nothing is to translate),
\* up to the construction of the Translator, which throws when the API key
\* or an instructions file is missing
Reconcile(l) ==
  /\ pc[l] = "read"
  /\ \E r \in {readAndFilterExistingRecords(targetFile[TargetFileOf(l)], sourceMap)} :
     \E cands \in {identifyTranslationCandidates(sourceRecords, r.existingMap)} :
     \E kept \in {preserveExistingTranslations(r.filteredExisting, sourceMap)} :
        /\ recon' = [recon EXCEPT ![l] = r]
        /\ candidates' = [candidates EXCEPT ![l] = cands]
        /\ IF Len(cands) = 0 /\ r.removedCount = 0
           THEN /\ result' = [result EXCEPT ![l] = [updatedRecords |-> kept, hasChanges |-> FALSE]]
                /\ pc' = [pc EXCEPT ![l] = "done"]
                /\ UNCHANGED <<updatedRecords, rpc>>
           ELSE IF Len(cands) = 0
           THEN /\ result' = [result EXCEPT ![l] = [updatedRecords |-> SortByKey(kept), hasChanges |-> TRUE]]
                /\ pc' = [pc EXCEPT ![l] = "done"]
                /\ updatedRecords' = [updatedRecords EXCEPT ![l] = kept]
                /\ UNCHANGED rpc
           ELSE /\ updatedRecords' = [updatedRecords EXCEPT ![l] = kept]
                /\ UNCHANGED result
                /\ \E constructed \in BOOLEAN :
                     IF constructed
                     THEN /\ pc' = [pc EXCEPT ![l] = executeTranslations(batchSize)]
                          /\ UNCHANGED rpc
                     ELSE /\ pc' = [pc EXCEPT ![l] = "rejected"]
                          /\ rpc' = RejectedBy(l)
  /\ UNCHANGED <<config, library, watch, targetFile, outputFile, failedOutputs, run, sourceRecords, wstep,
                 newRecords, batchIndex, pos, callLog, written, fileAtStart, outputAtStart, prevDone>>

\* TranslateIndividually that logs a failed translate call and goes on
\* with the next candidate
TranslateIndividuallySkipping(l) ==
  /\ pc[l] = "individual"
  /\ LET c == candidates[l][pos[l]]
     IN \E ok \in BOOLEAN :
          /\ callLog' = [callLog EXCEPT ![l] =
                           Append(@, [kind |-> "translate", keys |-> <<c.key>>,
                                      res |-> IF ok THEN "ok" ELSE "throw"])]
          /\ newRecords' = [newRecords EXCEPT ![l] =
                              IF ok THEN Append(@, NewRecord(c.key, c.sourceRecord)) ELSE @]
          /\ pos' = [pos EXCEPT ![l] = @ + 1]
          /\ pc' = [pc EXCEPT ![l] = IF pos[l] = Len(candidates[l]) THEN "merge" ELSE "individual"]
  /\ UNCHANGED <<config, library, watch, targetFile, outputFile, failedOutputs, run, rpc, sourceRecords, wstep, recon,
                 candidates, updatedRecords, batchIndex, result, written,
                 fileAtStart, outputAtStart, prevDone>>

\* one iteration of the loop of translateIndividually
TranslateIndividually(l) ==
  /\ pc[l] = "individual"
  /\ LET c == candidates[l][pos[l]]
     IN \E ok \in BOOLEAN :
          /\ callLog' = [callLog EXCEPT ![l] =
                           Append(@, [kind |-> "translate", keys |-> <<c.key>>,
                                      res |-> IF ok THEN "ok" ELSE "throw"])]
          /\ IF ok
             THEN /\ newRecords' = [newRecords EXCEPT ![l] = Append(@, NewRecord(c.key, c.sourceRecord))]
                  /\ pos' = [pos EXCEPT ![l] = @ + 1]
                  /\ pc' = [pc EXCEPT ![l] = IF pos[l] = Len(candidates[l]) THEN "merge" ELSE "individual"]
                  /\ UNCHANGED rpc
             ELSE /\ pc' = [pc EXCEPT ![l] = "rejected"]
                  /\ rpc' = RejectedBy(l)
                  /\ UNCHANGED <<newRecords, pos>>
  /\ UNCHANGED <<config, library, watch, targetFile, outputFile, failedOutputs, run, sourceRecords, wstep, recon,
                 candidates, updatedRecords, batchIndex, result, written,
                 fileAtStart, outputAtStart, prevDone>>

\* TranslateBatch that translates the items of a chunk one by one also after
\* translateBatch has returned their translations
TranslateBatchThenIndividually(l) ==
  /\ pc[l] = "batch"
  /\ LET chunk == Chunk(candidates[l], batchSize, batchIndex[l])
     IN \E res \in {"ok", "throw"} :
          /\ callLog' = [callLog EXCEPT ![l] =
                           Append(@, [kind |-> "batch", keys |-> KeysOf(chunk), res |-> res])]
          /\ pc' = [pc EXCEPT ![l] = "fallback"]
          /\ pos' = [pos EXCEPT ![l] = 1]
  /\ UNCHANGED <<config, library, watch, targetFile, outputFile, failedOutputs, run, rpc, sourceRecords, wstep,
                 recon, candidates, updatedRecords, newRecords, batchIndex, result, written,
                 fileAtStart, outputAtStart, prevDone>>

\* one iteration of the batch loop of translateInBatches: the translateBatch
\* call and the loop over its result.  The call returns a translation for
\* every key ("ok"), throws ("throw"), or returns a map whose translation of
\* the j-th key is empty, which the loop notices after pushing j-1 records.
TranslateBatch(l) ==
  /\ pc[l] = "batch"
  /\ LET chunk == Chunk(candidates[l], batchSize, batchIndex[l])
         last == batchIndex[l] + 1 = NumBatches(candidates[l], batchSize)
     IN \/ /\ callLog' = [callLog EXCEPT ![l] =
                            Append(@, [kind |-> "batch", keys |-> KeysOf(chunk), res |-> "ok"])]
           /\ newRecords' = [newRecords EXCEPT ![l] = @ \o RecordsOf(chunk)]
           /\ batchIndex' = [batchIndex EXCEPT ![l] = @ + 1]
           /\ pc' = [pc EXCEPT ![l] = IF last THEN "merge" ELSE "batch"]
           /\ UNCHANGED pos
        \/ /\ callLog' = [callLog EXCEPT ![l] =
                            Append(@, [kind |-> "batch", keys |-> KeysOf(chunk), res |-> "throw"])]
           /\ pc' = [pc EXCEPT ![l] = "fallback"]
           /\ pos' = [pos EXCEPT ![l] = 1]
           /\ UNCHANGED <<newRecords, batchIndex>>
        \/ \E j \in DOMAIN chunk :
             /\ callLog' = [callLog EXCEPT ![l] =
                              Append(@, [kind |-> "batch", keys |-> KeysOf(chunk), res |-> "empty"])]
             /\ newRecords' = [newRecords EXCEPT ![l] = @ \o RecordsOf(SubSeq(chunk, 1, j - 1))]
             /\ pc' = [pc EXCEPT ![l] = "fallback"]
             /\ pos' = [pos EXCEPT ![l] = 1]
             /\ UNCHANGED batchIndex
  /\ UNCHANGED <<config, library, watch, targetFile, outputFile, failedOutputs, run, rpc, sourceRecords, wstep,
                 recon, candidates, updatedRecords, result, written, fileAtStart, outputAtStart,
                 prevDone>>

\* Fallback that does not push the record of a translated item
FallbackWithoutPush(l) ==
  /\ pc[l] = "fallback"
  /\ LET chunk == Chunk(candidates[l], batchSize, batchIndex[l])
         key == chunk[pos[l]].key
         lastItem == pos[l] = Len(chunk)
         lastBatch == batchIndex[l] + 1 = NumBatches(candidates[l], batchSize)
     IN \E ok \in BOOLEAN :
          /\ callLog' = [callLog EXCEPT ![l] =
                           Append(@, [kind |-> "translate", keys |-> <<key>>,
                                      res |-> IF ok THEN "ok" ELSE "throw"])]
          /\ IF ok
             THEN /\ pos' = [pos EXCEPT ![l] = IF lastItem THEN 1 ELSE @ + 1]
                  /\ batchIndex' = [batchIndex EXCEPT ![l] = IF lastItem THEN @ + 1 ELSE @]
                  /\ pc' = [pc EXCEPT ![l] =
                              IF ~lastItem THEN "fallback"
                              ELSE IF lastBatch THEN "merge" ELSE "batch"]
                  /\ UNCHANGED rpc
             ELSE /\ pc' = [pc EXCEPT ![l] = "rejected"]
                  /\ rpc' = RejectedBy(l)
                  /\ UNCHANGED <<pos, batchIndex>>
  /\ UNCHANGED <<config, library, watch, targetFile, outputFile, failedOutputs, run, sourceRecords, wstep, recon,
                 candidates, updatedRecords, newRecords, result, written, fileAtStart, outputAtStart,
                 prevDone>>

\* one iteration of the fallback loop of translateInBatches
Fallback(l) ==
  /\ pc[l] = "fallback"
  /\ LET chunk == Chunk(candidates[l], batchSize, batchIndex[l])
         key == chunk[pos[l]].key
         sourceRecord == FindSourceRecord(candidates[l], key)
         lastItem == pos[l] = Len(chunk)
         lastBatch == batchIndex[l] + 1 = NumBatches(candidates[l], batchSize)
     IN \E ok \in BOOLEAN :
          /\ callLog' = [callLog EXCEPT ![l] =
                           Append(@, [kind |-> "translate", keys |-> <<key>>,
                                      res |-> IF ok THEN "ok" ELSE "throw"])]
          /\ IF ok
             THEN /\ newRecords' = [newRecords EXCEPT ![l] = Append(@, NewRecord(key, sourceRecord))]
                  /\ pos' = [pos EXCEPT ![l] = IF lastItem THEN 1 ELSE @ + 1]
                  /\ batchIndex' = [batchIndex EXCEPT ![l] = IF lastItem THEN @ + 1 ELSE @]
                  /\ pc' = [pc EXCEPT ![l] =
                              IF ~lastItem THEN "fallback"
                              ELSE IF lastBatch THEN "merge" ELSE "batch"]
                  /\ UNCHANGED rpc
             ELSE /\ pc' = [pc EXCEPT ![l] = "rejected"]
                  /\ rpc' = RejectedBy(l)
                  /\ UNCHANGED <<newRecords, pos, batchIndex>>
  /\ UNCHANGED <<config, library, watch, targetFile, outputFile, failedOutputs, run, sourceRecords, wstep, recon,
                 candidates, updatedRecords, result, written, fileAtStart, outputAtStart, prevDone>>

\* Merge that also writes the target file, before the other pipelines end
MergeAndWrite(l) ==
  /\ pc[l] = "merge"
  /\ result' = [result EXCEPT ![l] =
                  [updatedRecords |-> SortByKey(updatedRecords[l] \o newRecords[l]),
                   hasChanges |-> TRUE]]
  /\ pc' = [pc EXCEPT ![l] = "done"]
  /\ targetFile' = [targetFile EXCEPT ![l] =
                      writeTargetFile(SortByKey(updatedRecords[l] \o newRecords[l]))]
  /\ written' = written \cup {l}
  /\ UNCHANGED <<config, library, watch, outputFile, failedOutputs, run, rpc, sourceRecords, wstep,
                 recon, candidates, updatedRecords, newRecords, batchIndex, pos,
                 callLog, fileAtStart, outputAtStart, prevDone>>

\* Merge that pushes the new translations onto all the records read
MergeExisting(l) ==
  /\ pc[l] = "merge"
  /\ result' = [result EXCEPT ![l] =
                  [updatedRecords |-> SortByKey(readTargetFile(targetFile[l]) \o newRecords[l]),
                   hasChanges |-> TRUE]]
  /\ pc' = [pc EXCEPT ![l] = "done"]
  /\ UNCHANGED <<config, library, watch, targetFile, outputFile, failedOutputs, run, rpc, sourceRecords, wstep,
                 recon, candidates, updatedRecords, newRecords, batchIndex, pos,
                 callLog, written, fileAtStart, outputAtStart, prevDone>>

\* Merge that does not wait for the translations that are still to be made
MergeBeforeTranslated(l) ==
  /\ pc[l] \in {"individual", "batch", "fallback", "merge"}
  /\ result' = [result EXCEPT ![l] =
                  [updatedRecords |-> SortByKey(updatedRecords[l] \o newRecords[l]),
                   hasChanges |-> TRUE]]
  /\ pc' = [pc EXCEPT ![l] = "done"]
  /\ UNCHANGED <<config, library, watch, targetFile, outputFile, failedOutputs, run, rpc, sourceRecords, wstep,
                 recon, candidates, updatedRecords, newRecords, batchIndex, pos,
                 callLog, written, fileAtStart, outputAtStart, prevDone>>

\* Merge that deletes from sourceMap the entries whose translations it has
\* merged
MergeConsumingSource(l) ==
  /\ pc[l] = "merge"
  /\ result' = [result EXCEPT ![l] =
                  [updatedRecords |-> SortByKey(updatedRecords[l] \o newRecords[l]),
                   hasChanges |-> TRUE]]
  /\ pc' = [pc EXCEPT ![l] = "done"]
  /\ sourceRecords' = SelectSeq(sourceRecords,
                                LAMBDA r : r.key \notin Range(KeysOf(newRecords[l])))
  /\ UNCHANGED <<config, library, watch, targetFile, outputFile, failedOutputs, run, rpc, wstep,
                 recon, candidates, updatedRecords, newRecords, batchIndex, pos,
                 callLog, written, fileAtStart, outputAtStart, prevDone>>

\* Merge that is abandoned once autotranslate has rejected
MergeWhileTranslating(l) ==
  /\ pc[l] = "merge"
  /\ rpc = "translating"
  /\ result' = [result EXCEPT ![l] =
                  [updatedRecords |-> SortByKey(updatedRecords[l] \o newRecords[l]),
                   hasChanges |-> TRUE]]
  /\ pc' = [pc EXCEPT ![l] = "done"]
  /\ UNCHANGED <<config, library, watch, targetFile, outputFile, failedOutputs, run, rpc, sourceRecords, wstep,
                 recon, candidates, updatedRecords, newRecords, batchIndex, pos,
                 callLog, written, fileAtStart, outputAtStart, prevDone>>

\* processTargetLanguage steps 4-5: push the new translations, sort, return
Merge(l) ==
  /\ pc[l] = "merge"
  /\ result' = [result EXCEPT ![l] =
                  [updatedRecords |-> SortByKey(updatedRecords[l] \o newRecords[l]),
                   hasChanges |-> TRUE]]
  /\ pc' = [pc EXCEPT ![l] = "done"]
  /\ UNCHANGED <<config, library, watch, targetFile, outputFile, failedOutputs, run, rpc, sourceRecords, wstep,
                 recon, candidates, updatedRecords, newRecords, batchIndex, pos,
                 callLog, written, fileAtStart, outputAtStart, prevDone>>

\* `await Promise.all(processingPromises)` resolves
AwaitAll ==
  /\ rpc = "translating"
  /\ \A l \in TargetSet : pc[l] = "done"
  /\ rpc' = "writing"
  /\ wstep' = 0
  /\ UNCHANGED <<config, library, watch, targetFile, outputFile, failedOutputs, run, sourceRecords, pipeline,
                 written, fileAtStart, outputAtStart, prevDone>>

\* executeSourceOutputFiles: every output of a registered format is
\* written unless writeFileSync throws for it; an error is logged otherwise
ExecuteSourceOutputFiles ==
  /\ rpc = "writing"
  /\ wstep = 0
  /\ \E unwritable \in SUBSET Range(SourceOutputs) :
       LET generated == GeneratedOutputs(SourceOutputs, unwritable)
       IN /\ outputFile' = [f \in OutputFiles |->
                               IF f \in generated THEN FileOf(StringRecords(sourceRecords))
                               ELSE outputFile[f]]
          /\ written' = written \cup generated
          /\ failedOutputs' = failedOutputs \cup (Range(SourceOutputs) \ generated)
  /\ wstep' = 1
  /\ UNCHANGED <<config, library, watch, targetFile, run, rpc, sourceRecords, pipeline, fileAtStart,
                 outputAtStart, prevDone>>

\* executeAllFileWrites, first loop: one iteration
WriteTarget ==
  /\ rpc = "writing"
  /\ wstep \in 1..Len(targets)
  /\ LET l == targets[wstep]
     IN IF result[l].hasChanges
        THEN /\ targetFile' = [targetFile EXCEPT ![TargetFileOf(l)] =
                                 writeTargetFile(result[l].updatedRecords)]
             /\ written' = written \cup {l}
        ELSE UNCHANGED <<targetFile, written>>
  /\ wstep' = wstep + 1
  /\ UNCHANGED <<config, library, watch, outputFile, failedOutputs, run, rpc, sourceRecords, pipeline, fileAtStart, outputAtStart,
                 prevDone>>

\* WriteTargetOutputs without the test of hasChanges
WriteTargetOutputsAlways ==
  /\ rpc = "writing"
  /\ wstep \in (Len(targets) + 1)..(2 * Len(targets))
  /\ LET l == targets[wstep - Len(targets)]
     IN IF Len(TargetOutputs(l)) > 0
        THEN \E unwritable \in SUBSET Range(TargetOutputs(l)) :
               LET generated == GeneratedOutputs(TargetOutputs(l), unwritable)
               IN /\ outputFile' = [f \in OutputFiles |->
                                       IF f \in generated
                                       THEN FileOf(StringRecords(result[l].updatedRecords))
                                       ELSE outputFile[f]]
                  /\ written' = written \cup generated
                  /\ failedOutputs' = failedOutputs \cup (Range(TargetOutputs(l)) \ generated)
        ELSE UNCHANGED <<outputFile, failedOutputs, written>>
  /\ wstep' = wstep + 1
  /\ UNCHANGED <<config, library, watch, targetFile, run, rpc, sourceRecords, pipeline, fileAtStart,
                 outputAtStart, prevDone>>

\* WriteTargetOutputs whose first failing output makes autotranslate reject
WriteTargetOutputsRejecting ==
  /\ rpc = "writing"
  /\ wstep \in (Len(targets) + 1)..(2 * Len(targets))
  /\ LET l == targets[wstep - Len(targets)]
     IN IF Len(TargetOutputs(l)) > 0 /\ result[l].hasChanges
        THEN \E unwritable \in SUBSET Range(TargetOutputs(l)) :
               LET generated == GeneratedOutputs(TargetOutputs(l), unwritable)
                   failed == Range(TargetOutputs(l)) \ generated
               IN IF failed = {}
                  THEN /\ outputFile' = [f \in OutputFiles |->
                                            IF f \in generated
                                            THEN FileOf(StringRecords(result[l].updatedRecords))
                                            ELSE outputFile[f]]
                       /\ written' = written \cup generated
                       /\ UNCHANGED <<failedOutputs, rpc>>
                  ELSE /\ failedOutputs' = failedOutputs \cup failed
                       /\ rpc' = "rejected"
                       /\ UNCHANGED <<outputFile, written>>
        ELSE UNCHANGED <<outputFile, failedOutputs, written, rpc>>
  /\ wstep' = wstep + 1
  /\ UNCHANGED <<config, library, watch, targetFile, run, sourceRecords, pipeline, fileAtStart,
                 outputAtStart, prevDone>>

\* executeAllFileWrites, second loop: one iteration.  executeTargetOutputFiles
\* writes every output of a registered format unless writeFileSync throws
\* for it, and logs an error otherwise.
WriteTargetOutputs ==
  /\ rpc = "writing"
  /\ wstep \in (Len(targets) + 1)..(2 * Len(targets))
  /\ LET l == targets[wstep - Len(targets)]
     IN IF Len(TargetOutputs(l)) > 0 /\ result[l].hasChanges
        THEN \E unwritable \in SUBSET Range(TargetOutputs(l)) :
               LET generated == GeneratedOutputs(TargetOutputs(l), unwritable)
               IN /\ outputFile' = [f \in OutputFiles |->
                                       IF f \in generated
                                       THEN FileOf(StringRecords(result[l].updatedRecords))
                                       ELSE outputFile[f]]
                  /\ written' = written \cup generated
                  /\ failedOutputs' = failedOutputs \cup (Range(TargetOutputs(l)) \ generated)
        ELSE UNCHANGED <<outputFile, failedOutputs, written>>
  /\ wstep' = wstep + 1
  /\ UNCHANGED <<config, library, watch, targetFile, run, rpc, sourceRecords, pipeline, fileAtStart,
                 outputAtStart, prevDone>>

\* autotranslate resolves
Complete ==
  /\ rpc = "writing"
  /\ wstep = 2 * Len(targets) + 1
  /\ rpc' = "done"
  /\ UNCHANGED <<config, library, watch, targetFile, outputFile, failedOutputs, run, sourceRecords, wstep, pipeline,
                 written, fileAtStart, outputAtStart, prevDone>>

\* the next invocation of autotranslate, with the same configuration and
\* the files as the previous run left them; Runs bounds the number of runs
\* that complete, a run that rejected can always be tried again
NextRun ==
  /\ rpc \in {"done", "rejected"}
  /\ \A l \in Langs : pc[l] \in {"done", "rejected", "off", "idle"}
  /\ rpc = "done" => run + 1 \in Runs
  /\ run' = IF rpc = "done" THEN run + 1 ELSE run
  /\ rpc' = "start"
  /\ prevDone' = (rpc = "done")
  /\ sourceRecords' = <<>>
  /\ wstep' = 0
  /\ pc' = [l \in Langs |-> IF l \in TargetSet THEN "idle" ELSE "off"]
  /\ recon' = [l \in Langs |-> None]
  /\ candidates' = [l \in Langs |-> <<>>]
  /\ updatedRecords' = [l \in Langs |-> <<>>]
  /\ newRecords' = [l \in Langs |-> <<>>]
  /\ batchIndex' = [l \in Langs |-> 0]
  /\ pos' = [l \in Langs |-> 1]
  /\ result' = [l \in Langs |-> None]
  /\ callLog' = [l \in Langs |-> <<>>]
  /\ written' = {}
  /\ fileAtStart' = targetFile
  /\ outputAtStart' = outputFile
  /\ failedOutputs' = {}
  /\ UNCHANGED <<config, library, watch, targetFile, outputFile>>

Next ==
  \/ StartRun
  \/ \E l \in Langs : Reconcile(l)
  \/ \E l \in Langs : TranslateIndividually(l)
  \/ \E l \in Langs : TranslateBatch(l)
  \/ \E l \in Langs : Fallback(l)
  \/ \E l \in Langs : Merge(l)
  \/ AwaitAll
  \/ ExecuteSourceOutputFiles
  \/ WriteTarget
  \/ WriteTargetOutputs
  \/ Complete
  \/ NextRun

Spec == Init /\ [][Next]_vars

----------------------------------------------------------------------------
(* The one-shot command line: main() *)

\* the positions of a pipeline that has not settled
Running == {"read", "individual", "batch", "fallback", "merge"}

\* main() catches the rejection of autotranslate and calls process.exit(1),
\* which ends every pipeline that is still in flight
ProcessExit ==
  /\ rpc = "rejected"
  /\ rpc' = "exited"
  /\ pc' = [l \in Langs |-> IF pc[l] \in Running THEN "killed" ELSE pc[l]]
  /\ UNCHANGED <<config, library, watch, targetFile, outputFile, failedOutputs, run, sourceRecords,
                 wstep, recon, candidates, updatedRecords, newRecords, batchIndex, pos,
                 result, callLog, written, fileAtStart, outputAtStart, prevDone>>

\* one step of the pipeline of l
PipelineStep(l) ==
  \/ Reconcile(l)
  \/ TranslateIndividually(l)
  \/ TranslateBatch(l)
  \/ Fallback(l)
  \/ Merge(l)

\* configurations with two targets, whose pipelines run concurrently, before
\* a target file exists
InitConcurrent ==
  Init /\ Len(targets) = 2 /\ targetFile = [l \in Langs |-> AbsentFile]

NextInProcess ==
  \/ Next
  \/ ProcessExit

\* The event loop runs every continuation that is ready, and a backend call
\* settles: a pipeline that can take a step eventually takes one, as long
\* as the process lives.  Whether and when the caller exits is not forced.
FairSpec ==
  /\ InitConcurrent
  /\ [][NextInProcess]_vars
  /\ \A l \in Langs : WF_vars(PipelineStep(l))

----------------------------------------------------------------------------
(* One run with file operations that can throw *)

\* readSourceFile throws (the file is missing or cannot be parsed, or its
\* format is not supported): autotranslate rejects before any pipeline starts
ReadSourceThrows ==
  /\ rpc = "start"
  /\ validateConfig(FinalConfig(rawConfig))
  /\ rpc' = "rejected"
  /\ UNCHANGED <<config, library, watch, targetFile, outputFile, failedOutputs, run, sourceRecords,
                 wstep, pipeline, written, fileAtStart, outputAtStart, prevDone>>

\* readTargetFile throws in readAndFilterExistingRecords (the target file is
\* malformed): the pipeline of l rejects
ReadTargetThrows(l) ==
  /\ pc[l] = "read"
  /\ pc' = [pc EXCEPT ![l] = "rejected"]
  /\ rpc' = RejectedBy(l)
  /\ UNCHANGED <<config, library, watch, targetFile, outputFile, failedOutputs, run, sourceRecords,
                 wstep, recon, candidates, updatedRecords, newRecords, batchIndex, pos, result,
                 callLog, written, fileAtStart, outputAtStart, prevDone>>

\* writeTargetFile throws in the first loop of executeAllFileWrites, which
\* catches nothing: autotranslate rejects and the loop ends
WriteTargetThrows ==
  /\ rpc = "writing"
  /\ wstep \in 1..Len(targets)
  /\ result[targets[wstep]].hasChanges
  /\ rpc' = "rejected"
  /\ UNCHANGED <<config, library, watch, targetFile, outputFile, failedOutputs, run, sourceRecords,
                 wstep, pipeline, written, fileAtStart, outputAtStart, prevDone>>

\* one call of autotranslate, with any configuration; two targets when the
\* configuration is valid, the second without a target file yet
OneRunInit ==
  /\ Init
  /\ Len(sourceFile) <= MaxSrcMulti
  /\ Len(targets) # 1
  /\ targetFile["de"] = AbsentFile

OneRunNext ==
  \/ StartRun
  \/ ReadSourceThrows
  \/ \E l \in Langs : PipelineStep(l) \/ ReadTargetThrows(l)
  \/ AwaitAll
  \/ ExecuteSourceOutputFiles
  \/ WriteTarget
  \/ WriteTargetThrows
  \/ WriteTargetOutputs
  \/ Complete

\* Every backend call and every file operation returns or throws: a step of
\* autotranslate or of a pipeline that waits for one is eventually taken,
\* with one of its outcomes.
FairOneRunSpec ==
  /\ OneRunInit
  /\ [][OneRunNext]_vars
  /\ WF_vars(StartRun \/ ReadSourceThrows)
  /\ \A l \in Langs : WF_vars(PipelineStep(l) \/ ReadTargetThrows(l))
  /\ WF_vars(AwaitAll)
  /\ WF_vars(ExecuteSourceOutputFiles)
  /\ WF_vars(WriteTarget \/ WriteTargetThrows)
  /\ WF_vars(WriteTargetOutputs)
  /\ WF_vars(Complete)

----------------------------------------------------------------------------
(* Two targets with one target file *)

\* AutotranslateConfig: configurations that pass validateConfig and whose
\* two targets name the same file
SameFileConfigs ==
  {[source |-> [file |-> "source"],
    targets |-> <<Target("fr"), [language |-> "de", file |-> "fr"]>>,
    batchSize |-> Number(b, 1)] : b \in 1..MaxBatch}

SameFileInit ==
  /\ rawConfig \in SameFileConfigs
  /\ targets = [i \in DOMAIN rawConfig.targets |-> rawConfig.targets[i].language]
  /\ batchSize = IntegerOf(FinalConfig(rawConfig).batchSize)
  /\ sourceFile \in {f \in SourceFiles : Len(f) <= MaxSrcMulti}
  /\ targetFile \in [Langs -> MultiTargetFiles(sourceFile)]
  /\ targetFile["de"] = AbsentFile
  /\ outputFile = [f \in OutputFiles |-> AbsentFile]
  /\ run = 1
  /\ rpc = "start"
  /\ sourceRecords = <<>>
  /\ wstep = 0
  /\ pc = [l \in Langs |-> "idle"]
  /\ recon = [l \in Langs |-> None]
  /\ candidates = [l \in Langs |-> <<>>]
  /\ updatedRecords = [l \in Langs |-> <<>>]
  /\ newRecords = [l \in Langs |-> <<>>]
  /\ batchIndex = [l \in Langs |-> 0]
  /\ pos = [l \in Langs |-> 1]
  /\ result = [l \in Langs |-> None]
  /\ callLog = [l \in Langs |-> <<>>]
  /\ written = {}
  /\ fileAtStart = targetFile
  /\ outputAtStart = outputFile
  /\ failedOutputs = {}
  /\ prevDone = FALSE
  /\ isProcessing = FALSE
  /\ needsScan = TRUE
  /\ events = 0
  /\ arrived = 0
  /\ orphan = [l \in Langs |-> FALSE]
  /\ call = NoCall
  /\ ret = NoReturn

SameFileSpec == SameFileInit /\ [][Next]_vars

----------------------------------------------------------------------------
(* Watch mode: runWatchMode *)

\* the test of the while loop of processTranslationUpdates
LoopAgain == needsScan

\* the test `if (isProcessing)` of processTranslationUpdates
Defer == isProcessing

\* One pass of the while loop up to the call of autotranslate: the flags are
\* set and a new invocation of autotranslate begins.  Nothing cancels the
\* pipelines that an earlier, rejected invocation has left in flight.
BeginRun ==
  /\ needsScan' = FALSE
  /\ isProcessing' = TRUE
  /\ arrived' = 0
  /\ orphan' = [l \in Langs |-> orphan[l] \/ pc[l] \in Running]
  /\ run' = IF rpc = "done" THEN run + 1 ELSE run
  /\ rpc' = "start"
  /\ prevDone' = (rpc = "done")
  /\ sourceRecords' = <<>>
  /\ wstep' = 0
  /\ pc' = [l \in Langs |-> IF l \in TargetSet THEN "idle" ELSE "off"]
  /\ recon' = [l \in Langs |-> None]
  /\ candidates' = [l \in Langs |-> <<>>]
  /\ updatedRecords' = [l \in Langs |-> <<>>]
  /\ newRecords' = [l \in Langs |-> <<>>]
  /\ batchIndex' = [l \in Langs |-> 0]
  /\ pos' = [l \in Langs |-> 1]
  /\ result' = [l \in Langs |-> None]
  /\ callLog' = [l \in Langs |-> <<>>]
  /\ written' = {}
  /\ fileAtStart' = targetFile
  /\ outputAtStart' = outputFile
  /\ failedOutputs' = {}

\* ChangeEvent that returns without setting needsScan when a run is in
\* progress
ChangeEventNotFlagged ==
  /\ events < MaxEvents
  /\ events' = events + 1
  /\ IF Defer
     THEN /\ arrived' = arrived + 1
          /\ UNCHANGED <<needsScan, isProcessing, orphan, run, rpc, prevDone, sourceRecords,
                         wstep, pipeline, written, fileAtStart, outputAtStart, failedOutputs>>
     ELSE BeginRun
  /\ UNCHANGED <<config, library, targetFile, outputFile>>

\* The watcher emits add or change and processTranslationUpdates runs up to
\* its first await: needsScan is set, and the loop is entered unless a run
\* is in progress.
ChangeEvent ==
  /\ events < MaxEvents
  /\ events' = events + 1
  /\ IF Defer
     THEN /\ needsScan' = TRUE
          /\ arrived' = arrived + 1
          /\ UNCHANGED <<isProcessing, orphan, run, rpc, prevDone, sourceRecords, wstep,
                         pipeline, written, fileAtStart, outputAtStart, failedOutputs>>
     ELSE BeginRun
  /\ UNCHANGED <<config, library, targetFile, outputFile>>

\* autotranslate has resolved or rejected: the catch logs a rejection, the
\* finally clears isProcessing, and the loop runs again when needsScan was
\* set in the meantime.
RunSettles ==
  /\ isProcessing
  /\ rpc \in {"done", "rejected"}
  /\ IF LoopAgain
     THEN BeginRun
     ELSE /\ isProcessing' = FALSE
          /\ UNCHANGED <<needsScan, arrived, orphan, run, rpc, prevDone, sourceRecords,
                         wstep, pipeline, written, fileAtStart, outputAtStart,
                         failedOutputs>>
  /\ UNCHANGED <<config, library, events, targetFile, outputFile>>

\* The pipeline of an earlier invocation runs to its end: its backend calls
\* return or throw, and nothing awaits its result any more.
OrphanSettles(l) ==
  /\ orphan[l]
  /\ orphan' = [orphan EXCEPT ![l] = FALSE]
  /\ UNCHANGED <<config, library, isProcessing, needsScan, events, arrived, targetFile, outputFile,
                 run, rpc, prevDone, sourceRecords, wstep, pipeline, written, fileAtStart,
                 outputAtStart, failedOutputs>>

\* no run of autotranslate has started and the watcher has emitted nothing
NothingStarted ==
  /\ targetFile = [l \in Langs |-> AbsentFile]
  /\ outputFile = [f \in OutputFiles |-> AbsentFile]
  /\ run = 1
  /\ rpc = "none"
  /\ sourceRecords = <<>>
  /\ wstep = 0
  /\ pc = [l \in Langs |-> "idle"]
  /\ recon = [l \in Langs |-> None]
  /\ candidates = [l \in Langs |-> <<>>]
  /\ updatedRecords = [l \in Langs |-> <<>>]
  /\ newRecords = [l \in Langs |-> <<>>]
  /\ batchIndex = [l \in Langs |-> 0]
  /\ pos = [l \in Langs |-> 1]
  /\ result = [l \in Langs |-> None]
  /\ callLog = [l \in Langs |-> <<>>]
  /\ written = {}
  /\ fileAtStart = targetFile
  /\ outputAtStart = outputFile
  /\ failedOutputs = {}
  /\ prevDone = FALSE
  /\ isProcessing = FALSE
  /\ needsScan = TRUE
  /\ events = 0
  /\ arrived = 0
  /\ orphan = [l \in Langs |-> FALSE]

\* runWatchMode is called with a valid configuration of two targets whose
\* files do not exist yet; no run starts before the first event.
WatchInit ==
  /\ rawConfig \in {c \in ValidConfigs : Len(c.targets) = 2}
  /\ targets = [i \in DOMAIN rawConfig.targets |-> rawConfig.targets[i].language]
  /\ batchSize = IntegerOf(FinalConfig(rawConfig).batchSize)
  /\ sourceFile \in {f \in SourceFiles : Len(f) <= MaxSrcMulti}
  /\ NothingStarted
  /\ call = NoCall
  /\ ret = NoReturn

WatchNext ==
  \/ ChangeEvent
  \/ RunSettles
  \/ \E l \in Langs : OrphanSettles(l)
  \/ StartRun
  \/ \E l \in Langs : PipelineStep(l)
  \/ AwaitAll
  \/ ExecuteSourceOutputFiles
  \/ WriteTarget
  \/ WriteTargetOutputs
  \/ Complete

WatchSpec == WatchInit /\ [][WatchNext]_vars

\* runWatchMode with two targets and one source record
OneRecordWatchInit ==
  /\ WatchInit
  /\ Len(sourceFile) = 1

\* Every run terminates: each backend call and file operation returns or
\* throws, so a pipeline that can step does, and the continuations of the
\* awaited promises (Promise.all, the write phase, the finally block and
\* the test of the while loop) are run by the event loop.
FairWatchSpec ==
  /\ OneRecordWatchInit
  /\ [][WatchNext]_vars
  /\ WF_vars(RunSettles)
  /\ WF_vars(StartRun)
  /\ \A l \in Langs : WF_vars(PipelineStep(l))
  /\ WF_vars(AwaitAll)
  /\ WF_vars(ExecuteSourceOutputFiles)
  /\ WF_vars(WriteTarget)
  /\ WF_vars(WriteTargetOutputs)
  /\ WF_vars(Complete)

----------------------------------------------------------------------------
(* Watch mode of the command line of unnamed/part_001 *)

\* The watcher emits add or change and processTranslationUpdates of
\* unnamed/part_001 runs up to its first await: needsScan is set only when a
\* run is in progress, and otherwise the loop is entered only if needsScan
\* is still set.
ChangeEventPart001 ==
  /\ events < MaxEvents
  /\ events' = events + 1
  /\ IF Defer
     THEN /\ needsScan' = TRUE
          /\ arrived' = arrived + 1
          /\ UNCHANGED <<isProcessing, orphan, run, rpc, prevDone, sourceRecords, wstep,
                         pipeline, written, fileAtStart, outputAtStart, failedOutputs>>
     ELSE IF LoopAgain
     THEN BeginRun
     ELSE /\ arrived' = arrived + 1
          /\ UNCHANGED <<needsScan, isProcessing, orphan, run, rpc, prevDone, sourceRecords,
                         wstep, pipeline, written, fileAtStart, outputAtStart, failedOutputs>>
  /\ UNCHANGED <<config, library, targetFile, outputFile>>

WatchNextPart001 ==
  \/ ChangeEventPart001
  \/ RunSettles
  \/ \E l \in Langs : OrphanSettles(l)
  \/ StartRun
  \/ \E l \in Langs : PipelineStep(l)
  \/ AwaitAll
  \/ ExecuteSourceOutputFiles
  \/ WriteTarget
  \/ WriteTargetOutputs
  \/ Complete

WatchSpecPart001 == OneRecordWatchInit /\ [][WatchNextPart001]_vars

----------------------------------------------------------------------------
(* Translator.translateBatch *)

\* a value returned / an error thrown
Returns(v) == [pending |-> FALSE, rejects |-> FALSE, error |-> "", value |-> v]
Throws(e) == [pending |-> FALSE, rejects |-> TRUE, error |-> e, value |-> <<>>]

\* response.output_parsed.translations: items {key, translation}; an empty
\* translation and a key that was not requested can occur
TranslationItems == [key : Keys, translation : {"", "t1", "t2"}]

\* What openai.responses.parse does: it throws, or it returns a response
\* whose output_parsed is null, lacks translations, or lists translations.
Responses ==
  {[throws |-> TRUE, parsed |-> FALSE, listed |-> FALSE, translations |-> <<>>],
   [throws |-> FALSE, parsed |-> FALSE, listed |-> FALSE, translations |-> <<>>],
   [throws |-> FALSE, parsed |-> TRUE, listed |-> FALSE, translations |-> <<>>]}
    \cup {[throws |-> FALSE, parsed |-> TRUE, listed |-> TRUE, translations |-> t] :
            t \in SeqsUpTo(TranslationItems, MaxReq)}

\* the requests of translateBatch, by their keys
Requests == {s \in SeqsUpTo(Keys, MaxReq) : NoDup(s)}

\* resultMap: Map.set keeps the translation that was set last for a key
ResultMap(translations) ==
  [k \in {translations[i].key : i \in DOMAIN translations} |->
     LET n == CHOOSE i \in DOMAIN translations :
                /\ translations[i].key = k
                /\ \A j \in DOMAIN translations : translations[j].key = k => j <= i
     IN translations[n].translation]

\* translateBatch that returns resultMap without looking for missing keys
translateBatchUnvalidated(requests, response) ==
  IF Len(requests) = 0 THEN Returns(<<>>)
  ELSE IF response.throws THEN Throws("API error")
  ELSE IF ~response.parsed \/ ~response.listed
       THEN Throws("Invalid response format from OpenAI API")
  ELSE Returns(ResultMap(response.translations))

\* Translator.translateBatch
translateBatch(requests, response) ==
  IF Len(requests) = 0 THEN Returns(<<>>)
  ELSE IF response.throws THEN Throws("API error")
  ELSE IF ~response.parsed \/ ~response.listed
       THEN Throws("Invalid response format from OpenAI API")
  ELSE LET resultMap == ResultMap(response.translations)
           missingKeys == SelectSeq(requests, LAMBDA k : k \notin DOMAIN resultMap)
       IN IF Len(missingKeys) > 0
          THEN Throws("Missing translations for keys")
          ELSE Returns(resultMap)

\* the calls of translateBatch, each with the response of the backend to it
TranslateBatchCalls ==
  {[fn |-> "translateBatch", requests |-> requests, response |-> response] :
     requests \in Requests, response \in Responses}

\* the call of translateBatch settles
CallTranslateBatch ==
  /\ call.fn = "translateBatch"
  /\ ret.pending
  /\ ret' = translateBatch(call.requests, call.response)
  /\ UNCHANGED <<config, watch, call, targetFile, outputFile, failedOutputs, run, rpc,
                 sourceRecords, wstep, pipeline, written, fileAtStart, outputAtStart,
                 prevDone>>

----------------------------------------------------------------------------
(* translateInBatches: the loop over the result of translateBatch *)

\* the chunks of candidates that a batch is made of
BatchChunks ==
  {[i \in DOMAIN ks |-> [key |-> ks[i], sourceRecord |-> SourceRecordOf[ks[i]]]] :
     ks \in Requests \ {<<>>}}

\* the number of items of the chunk that the loop handles before it throws
\* 'Missing translation for key': translations.get(key) is missing or empty
PushedBeforeThrow(chunk, translations) ==
  LET bad == {i \in DOMAIN chunk :
                \/ chunk[i].key \notin DOMAIN translations
                \/ translations[chunk[i].key] = ""}
  IN IF bad = {} THEN Len(chunk) ELSE (CHOOSE i \in bad : \A j \in bad : i <= j) - 1

\* the loop that takes the i-th translation of the response for the i-th
\* candidate
BatchLoopByPosition(chunk, response) ==
  IF \E i \in DOMAIN chunk :
       i > Len(response.translations) \/ response.translations[i].translation = ""
  THEN Throws("Missing translation for key")
  ELSE Returns([i \in DOMAIN chunk |->
                  [key |-> chunk[i].key, text |-> response.translations[i].translation,
                   hash |-> chunk[i].sourceRecord.hash]])

\* The try block of translateInBatches for one chunk: translateBatch, then
\* one record per candidate of the chunk, in candidate order, with the
\* translation that the map holds for its key.  It returns the records it
\* has pushed, or throws (and the catch block takes over).
BatchLoop(chunk, response) ==
  LET translations == translateBatch(KeysOf(chunk), response)
  IN IF translations.rejects THEN translations
     ELSE IF PushedBeforeThrow(chunk, translations.value) < Len(chunk)
          THEN Throws("Missing translation for key")
     ELSE Returns([i \in DOMAIN chunk |->
                     [key |-> chunk[i].key, text |-> translations.value[chunk[i].key],
                      hash |-> chunk[i].sourceRecord.hash]])

\* the batches of translateInBatches, each with the response of the backend
TranslateInBatchesCalls ==
  {[fn |-> "translateInBatches", chunk |-> chunk, response |-> response] :
     chunk \in BatchChunks, response \in Responses}

\* the try block of translateInBatches ends
CallTranslateInBatches ==
  /\ call.fn = "translateInBatches"
  /\ ret.pending
  /\ ret' = BatchLoop(call.chunk, call.response)
  /\ UNCHANGED <<config, watch, call, targetFile, outputFile, failedOutputs, run, rpc,
                 sourceRecords, wstep, pipeline, written, fileAtStart, outputAtStart,
                 prevDone>>

----------------------------------------------------------------------------
(* hash.ts *)

\* A string is the sequence of its characters.  The texts and descriptions
\* that are hashed are made of a letter and the pipe character.
HashChars == {"a", "|"}
HashStrings == SeqsUpTo(HashChars, MaxStr)

\* An unsigned 32-bit integer, held as two 16-bit halves as the UINT32 of
\* xxhashjs holds it.  XXH.h32 can return any of them; these have no, some
\* and all leading hexadecimal digits zero.
UInt32s == [high : {0, 1, 43981, 65535}, low : {0, 1, 15, 16, 255, 4096, 65535}]

HexDigit == <<"0", "1", "2", "3", "4", "5", "6", "7", "8", "9", "a", "b", "c", "d", "e", "f">>

\* Number.prototype.toString(16) of n < 2^16: no leading zero
RECURSIVE Hex(_)
Hex(n) == IF n < 16 THEN <<HexDigit[n + 1]>> ELSE Hex(n \div 16) \o <<HexDigit[(n % 16) + 1]>>

\* String.prototype.padStart with a pad string of one character
padStart(s, targetLength, padString) ==
  IF Len(s) >= targetLength THEN s
  ELSE [i \in 1..(targetLength - Len(s)) |-> padString] \o s

\* UINT32.prototype.toString(16): the value high * 2^16 + low in base 16
\* without leading zeros
ToString16(u) ==
  IF u.high = 0 THEN Hex(u.low) ELSE Hex(u.high) \o padStart(Hex(u.low), 4, "0")

\* the combination without a separator
CombinedUnseparated(text, description) == text \o description

\* const combined = text + '|' + description
Combined(text, description) == text \o <<"|">> \o description

\* calculateHash without padStart
calculateHashUnpadded(hash) == ToString16(hash)

\* calculateHash, from the value that XXH.h32 has returned for combined
calculateHash(hash) == padStart(ToString16(hash), 8, "0")

\* the calls of calculateHash; hash is what XXH.h32(combined, 0xabcd) returns
CalculateHashCalls ==
  {[fn |-> "calculateHash", text |-> text, description |-> description, hash |-> hash] :
     text \in HashStrings, description \in HashStrings, hash \in UInt32s}

\* the call of calculateHash returns
CallCalculateHash ==
  /\ call.fn = "calculateHash"
  /\ ret.pending
  /\ ret' = Returns(calculateHash(call.hash))
  /\ UNCHANGED <<config, watch, call, targetFile, outputFile, failedOutputs, run, rpc,
                 sourceRecords, wstep, pipeline, written, fileAtStart, outputAtStart,
                 prevDone>>

----------------------------------------------------------------------------
(* formats/java-properties.ts: JavaPropertiesFormatter *)

Backslash == "\\"
Newline == "\n"
Whitespace == {" ", "\t", "\n", "\r", "\f"}

\* String.prototype.replace with a global pattern that matches the literal
\* pat: the matches are found from left to right and do not overlap
RECURSIVE ReplaceAll(_, _, _)
ReplaceAll(str, pat, rep) ==
  IF Len(str) < Len(pat) THEN str
  ELSE IF SubSeq(str, 1, Len(pat)) = pat
       THEN rep \o ReplaceAll(SubSeq(str, Len(pat) + 1, Len(str)), pat, rep)
       ELSE <<str[1]>> \o ReplaceAll(Tail(str), pat, rep)

\* String.prototype.trim
trim(str) ==
  LET kept == {i \in DOMAIN str : str[i] \notin Whitespace}
  IN IF kept = {} THEN <<>>
     ELSE SubSeq(str, CHOOSE i \in kept : \A j \in kept : i <= j,
                      CHOOSE i \in kept : \A j \in kept : j <= i)

\* String.prototype.startsWith
startsWith(str, prefix) ==
  Len(str) >= Len(prefix) /\ SubSeq(str, 1, Len(prefix)) = prefix

\* String.prototype.indexOf for one character, counted from 0; -1 when absent
indexOf(str, c) ==
  IF \E i \in DOMAIN str : str[i] = c
  THEN (CHOOSE i \in DOMAIN str : str[i] = c /\ \A j \in 1..(i - 1) : str[j] # c) - 1
  ELSE 0 - 1

\* content.split('\n')
RECURSIVE split(_)
split(content) ==
  LET i == indexOf(content, Newline)
  IN IF i < 0 THEN <<content>>
     ELSE <<SubSeq(content, 1, i)>> \o split(SubSeq(content, i + 2, Len(content)))

\* lines.join('\n')
RECURSIVE join(_)
join(lines) ==
  IF Len(lines) = 0 THEN <<>>
  ELSE IF Len(lines) = 1 THEN lines[1]
  ELSE lines[1] \o <<Newline>> \o join(Tail(lines))

escapeKey(key) ==
  LET a == ReplaceAll(key, <<Backslash>>, <<Backslash, Backslash>>)
      b == ReplaceAll(a, <<" ">>, <<Backslash, " ">>)
      c == ReplaceAll(b, <<"\t">>, <<Backslash, "t">>)
      d == ReplaceAll(c, <<"\f">>, <<Backslash, "f">>)
      e == ReplaceAll(d, <<"=">>, <<Backslash, "=">>)
      f == ReplaceAll(e, <<":">>, <<Backslash, ":">>)
      g == ReplaceAll(f, <<"#">>, <<Backslash, "#">>)
  IN ReplaceAll(g, <<"!">>, <<Backslash, "!">>)

escapeValue(value) ==
  LET a == ReplaceAll(value, <<Backslash>>, <<Backslash, Backslash>>)
      b == ReplaceAll(a, <<"\n">>, <<Backslash, "n">>)
      c == ReplaceAll(b, <<"\r">>, <<Backslash, "r">>)
      d == ReplaceAll(c, <<"\t">>, <<Backslash, "t">>)
      e == ReplaceAll(d, <<"\f">>, <<Backslash, "f">>)
  IN ReplaceAll(e, <<"'">>, <<"'", "'">>)

unescapeKey(key) ==
  LET a == ReplaceAll(key, <<Backslash, "!">>, <<"!">>)
      b == ReplaceAll(a, <<Backslash, "#">>, <<"#">>)
      c == ReplaceAll(b, <<Backslash, ":">>, <<":">>)
      d == ReplaceAll(c, <<Backslash, "=">>, <<"=">>)
      e == ReplaceAll(d, <<Backslash, "f">>, <<"\f">>)
      f == ReplaceAll(e, <<Backslash, "t">>, <<"\t">>)
      g == ReplaceAll(f, <<Backslash, " ">>, <<" ">>)
  IN ReplaceAll(g, <<Backslash, Backslash>>, <<Backslash>>)

unescapeValue(value) ==
  LET a == ReplaceAll(value, <<"'", "'">>, <<"'">>)
      b == ReplaceAll(a, <<Backslash, "f">>, <<"\f">>)
      c == ReplaceAll(b, <<Backslash, "t">>, <<"\t">>)
      d == ReplaceAll(c, <<Backslash, "r">>, <<"\r">>)
      e == ReplaceAll(d, <<Backslash, "n">>, <<"\n">>)
  IN ReplaceAll(e, <<Backslash, Backslash>>, <<Backslash>>)

\* the line '# encoding: UTF-8' and the prefix '# encoding:'
EncodingLine ==
  <<"#", " ", "e", "n", "c", "o", "d", "i", "n", "g", ":", " ", "U", "T", "F", "-", "8">>
EncodingPrefix == SubSeq(EncodingLine, 1, 11)

\* the lines that format pushes for the records
RECURSIVE RecordLines(_)
RecordLines(records) ==
  IF records = <<>> THEN <<>>
  ELSE LET record == records[1]
           comment == IF trim(record.description) # <<>>
                      THEN <<(<<"#", " ">> \o record.description)>>
                      ELSE <<>>
       IN comment \o <<escapeKey(record.key) \o <<"=">> \o escapeValue(record.text)>>
            \o RecordLines(Tail(records))

\* JavaPropertiesFormatter.format
format(records) == join(<<EncodingLine>> \o RecordLines(records)) \o <<Newline>>

\* JavaPropertiesFormatter.writeTarget: the content written to the file
writeTarget(records) ==
  format([i \in DOMAIN records |->
            [key |-> records[i].key, text |-> records[i].text,
             description |-> records[i].hash]])

\* the loop of parsePropertiesContent from line i on (i counted from 0),
\* called with isSource = false
RECURSIVE ParseLines(_, _, _)
ParseLines(lines, i, currentComment) ==
  IF i >= Len(lines) THEN <<>>
  ELSE LET line == trim(lines[i + 1])
           equalIndex == indexOf(line, "=")
           key == unescapeKey(trim(SubSeq(line, 1, equalIndex)))
           value == unescapeValue(SubSeq(line, equalIndex + 2, Len(line)))
       IN IF line = <<>> THEN ParseLines(lines, i + 1, <<>>)
          ELSE IF startsWith(line, EncodingPrefix) /\ i = 0
               THEN ParseLines(lines, i + 1, currentComment)
          ELSE IF startsWith(line, <<"#">>)
               THEN ParseLines(lines, i + 1, trim(SubSeq(line, 2, Len(line))))
          ELSE (IF equalIndex > 0 /\ key # <<>>
                THEN <<[key |-> key, text |-> value, description |-> currentComment,
                        hash |-> <<>>]>>
                ELSE <<>>)
                 \o ParseLines(lines, i + 1, <<>>)

\* JavaPropertiesFormatter.parsePropertiesContent with isSource = false
parsePropertiesContent(content) == ParseLines(split(content), 0, <<>>)

\* JavaPropertiesFormatter.parseTarget of a file that exists
parseTarget(content) ==
  LET parsed == parsePropertiesContent(content)
  IN [i \in DOMAIN parsed |->
        [key |-> parsed[i].key, text |-> parsed[i].text, hash |-> parsed[i].description]]

\* The keys, texts and hashes of the target records that are written: a
\* plain character and characters that the format escapes or uses to escape
PropertyKeys == SeqsUpTo({"k", ":", "="}, MaxStr) \ {<<>>}
PropertyTexts == SeqsUpTo({"x", "n", "'", Backslash, Newline}, MaxStr)
PropertyHashes == {<<"a", "1">>, <<"b", "2">>}

\* the records of the test of writeTarget, cut to one character per word
TestedRecords ==
  {[key |-> k, text |-> t, hash |-> h] :
     k \in {<<"k">>, <<"k", ":">>}, t \in {<<"x">>, <<"'", "x">>}, h \in PropertyHashes}

\* the calls of writeTarget: one record of any key and text, or up to
\* MaxRec records of the kind that the test writes
WriteTargetCalls ==
  {[fn |-> "writeTarget", records |-> <<[key |-> k, text |-> t, hash |-> h]>>] :
     k \in PropertyKeys, t \in PropertyTexts, h \in PropertyHashes}
    \cup {[fn |-> "writeTarget", records |-> r] : r \in SeqsUpTo(TestedRecords, MaxRec)}

\* writeTarget writes the file and parseTarget reads it back
CallWriteThenParse ==
  /\ call.fn = "writeTarget"
  /\ ret.pending
  /\ ret' = Returns(parseTarget(writeTarget(call.records)))
  /\ UNCHANGED <<config, watch, call, targetFile, outputFile, failedOutputs, run, rpc,
                 sourceRecords, wstep, pipeline, written, fileAtStart, outputAtStart,
                 prevDone>>

\* The functions of the library are called on their own, outside a run:
\* the remaining variables are those of a program that has started nothing.
LibraryInit ==
  /\ rawConfig = [source |-> [file |-> "source"], targets |-> <<Target("fr")>>,
                  batchSize |-> Number(1, 1)]
  /\ targets = <<"fr">>
  /\ batchSize = 1
  /\ sourceFile = <<SourceRecordOf[1]>>
  /\ NothingStarted
  /\ call \in TranslateBatchCalls \cup TranslateInBatchesCalls \cup CalculateHashCalls
              \cup WriteTargetCalls
  /\ ret = NoReturn

LibraryNext ==
  \/ CallTranslateBatch
  \/ CallTranslateInBatches
  \/ CallCalculateHash
  \/ CallWriteThenParse

LibrarySpec == LibraryInit /\ [][LibraryNext]_vars

----------------------------------------------------------------------------
(* Vocabulary of the properties *)

SourceKeys == Range(KeysOf(sourceFile))

\* the hash of the source record with key k
SourceHash(k) == (CHOOSE r \in Range(sourceFile) : r.key = k).hash

\* the records the target file of l held when the run started
ExistingAtStart(l) == readTargetFile(fileAtStart[l])

\* l has a record for k and the last one stores this hash
LastHash(l, k) ==
  LET recs == ExistingAtStart(l)
      n == CHOOSE i \in DOMAIN recs :
             recs[i].key = k /\ \A j \in DOMAIN recs : recs[j].key = k => j <= i
  IN recs[n].hash

Reconciled(l) == recon[l] # None

Returned(l) == result[l] # None

TargetWrites == written \ Range(SourceOutputs)

KeysUnique(records) ==
  \A i, j \in DOMAIN records : i # j => records[i].key # records[j].key

Called(l, k) == \E i \in DOMAIN callLog[l] : k \in Range(callLog[l][i].keys)

----------------------------------------------------------------------------
(* Properties *)

\* C1: no target file and no secondary output of a target is written in a
\* run before processTargetLanguage has returned its result for every
\* configured target language.
C1_WriteBarrier ==
  (TargetWrites # {} \/ targetFile # fileAtStart)
    => \A l \in TargetSet : Returned(l)

C1_Witness ==
  /\ Len(targets) = 2
  /\ "fr" \in written
  /\ "de" \in written
  /\ "fr.out" \in written

\* C2: when the pipeline of some language has rejected, autotranslate has
\* rejected and every target file still holds the content it had when the
\* run started.
C2_AbortWritesNothing ==
  (\E l \in TargetSet : pc[l] = "rejected")
    => /\ rpc = "rejected"
       /\ targetFile = fileAtStart
       /\ TargetWrites = {}

C2_Witness ==
  /\ pc["de"] = "rejected"
  /\ Returned("fr")
  /\ result["fr"].hasChanges
  /\ \E i \in DOMAIN fileAtStart["fr"].rows :
       fileAtStart["fr"].rows[i] \in Range(result["fr"].updatedRecords)

C4_NoChangeNoWrite ==
  \A l \in TargetSet :
    (Reconciled(l) /\ candidates[l] = <<>> /\ recon[l].removedCount = 0)
      => /\ Returned(l)
         /\ ~result[l].hasChanges
         /\ callLog[l] = <<>>
         /\ l \notin written
         /\ targetFile[l] = fileAtStart[l]
         /\ Range(TargetOutputs(l)) \cap written = {}

C4_Witness ==
  /\ rpc = "done"
  /\ run = 1
  /\ Len(targets) = 2
  /\ candidates["fr"] = <<>>
  /\ recon["fr"].removedCount = 0
  /\ ExistingAtStart("fr") # <<>>
  /\ "de" \in written

\* C5: after reconciliation, a source key is a candidate exactly when the
\* existing records hold no record for it or the hash stored for it (the
\* one of its last record) differs from the source hash; with no target
\* file, the candidates are the source keys, in source order.
C5_CandidateIffMissingOrStale ==
  \A l \in TargetSet :
    Reconciled(l)
      => /\ \A k \in SourceKeys :
              (k \in Range(KeysOf(candidates[l])))
                <=> \/ k \notin Range(KeysOf(ExistingAtStart(l)))
                    \/ LastHash(l, k) # SourceHash(k)
         /\ ~fileAtStart[l].exists => KeysOf(candidates[l]) = KeysOf(sourceFile)

C5_Witness ==
  /\ Reconciled("fr")
  /\ \E k \in SourceKeys :
       /\ k \in Range(KeysOf(candidates["fr"]))
       /\ k \in Range(KeysOf(ExistingAtStart("fr")))
  /\ \E k \in SourceKeys : k \notin Range(KeysOf(candidates["fr"]))
  /\ ~fileAtStart["de"].exists
  /\ Reconciled("de")

\* C6: no candidate, no record of a result and no record of a written
\* target file has a key that is absent from the source.
C6_NoOrphanInOutput ==
  \A l \in TargetSet :
    /\ Range(KeysOf(candidates[l])) \subseteq SourceKeys
    /\ Returned(l) => Range(KeysOf(result[l].updatedRecords)) \subseteq SourceKeys
    /\ l \in written => Range(KeysOf(targetFile[l].rows)) \subseteq SourceKeys

C6_Witness ==
  /\ "fr" \in written
  /\ recon["fr"].removedCount > 0
  /\ newRecords["fr"] # <<>>
  /\ updatedRecords["fr"] # <<>>

\* C7: a result with hasChanges = TRUE holds a record for every source key
\* and each of its records carries the hash of the source record with its
\* key; so does every record the translation driver has produced.
C7_HashIsSourceHash ==
  \A l \in TargetSet :
    /\ \A i \in DOMAIN newRecords[l] :
         /\ newRecords[l][i].key \in SourceKeys
         /\ newRecords[l][i].hash = SourceHash(newRecords[l][i].key)
    /\ (Returned(l) /\ result[l].hasChanges)
         => /\ SourceKeys \subseteq Range(KeysOf(result[l].updatedRecords))
            /\ \A i \in DOMAIN result[l].updatedRecords :
                 /\ result[l].updatedRecords[i].key \in SourceKeys
                 /\ result[l].updatedRecords[i].hash
                      = SourceHash(result[l].updatedRecords[i].key)

C7_Witness ==
  /\ Returned("fr")
  /\ result["fr"].hasChanges
  /\ \E i, j \in DOMAIN callLog["fr"] :
       /\ callLog["fr"][i].kind = "batch" /\ callLog["fr"][i].res = "ok"
       /\ callLog["fr"][j].kind = "translate"
  /\ \E i \in DOMAIN result["fr"].updatedRecords : result["fr"].updatedRecords[i].text = "hand"

\* C8: a target file written by a run in which the backend returned no
\* empty translation holds at most one record per key.
C8_OneRecordPerKey ==
  \A l \in TargetSet :
    (l \in written /\ \A i \in DOMAIN callLog[l] : callLog[l][i].res # "empty")
      => KeysUnique(targetFile[l].rows)

\* C9: an existing record whose key is in the source and whose hash equals
\* the source hash is in the result, unchanged, and no backend call is made
\* for its key.
C9_CurrentRecordKept ==
  \A l \in TargetSet :
    \A i \in DOMAIN ExistingAtStart(l) :
      LET r == ExistingAtStart(l)[i]
      IN (Reconciled(l) /\ r.key \in SourceKeys /\ r.hash = SourceHash(r.key))
           => /\ ~Called(l, r.key)
              /\ Returned(l) => r \in Range(result[l].updatedRecords)

\* C10: when the pipeline of a language returns, every key of a chunk whose
\* translateBatch call threw was translated by a later successful call of
\* translate and has its translation in the result, and in the target file
\* once the run has completed.
C10_FallbackCoversChunk ==
  \A l \in TargetSet :
    Returned(l)
      => \A i \in DOMAIN callLog[l] :
           (callLog[l][i].kind = "batch" /\ callLog[l][i].res = "throw")
             => \A k \in Range(callLog[l][i].keys) :
                  /\ \E j \in DOMAIN callLog[l] :
                       /\ j > i
                       /\ callLog[l][j] = [kind |-> "translate", keys |-> <<k>>, res |-> "ok"]
                  /\ \E n \in DOMAIN result[l].updatedRecords :
                       /\ result[l].updatedRecords[n].key = k
                       /\ result[l].updatedRecords[n].text
                            = Translation(SourceRecordOf[k].text)
                  /\ rpc = "done"
                       => \E n \in DOMAIN targetFile[l].rows :
                            /\ targetFile[l].rows[n].key = k
                            /\ targetFile[l].rows[n].text = Translation(SourceRecordOf[k].text)

C10_Witness ==
  /\ rpc = "done"
  /\ \E i \in DOMAIN callLog["fr"] :
       /\ callLog["fr"][i].kind = "batch"
       /\ callLog["fr"][i].res = "throw"
       /\ Len(callLog["fr"][i].keys) = 2
  /\ "fr" \in written

\* the driver of l has returned its newRecords
DriverReturned(l) == pc[l] \in {"merge", "done"} /\ candidates[l] # <<>>

\* the number of records of a sequence that have key k
CountKey(records, k) == Cardinality({n \in DOMAIN records : records[n].key = k})

\* C11: when the driver returns, every key of a chunk for which
\* translateBatch returned an empty translation was translated by a later
\* successful call of translate, and the driver's result holds exactly one
\* record for it.
C11_EmptyTranslationFailsChunk ==
  \A l \in TargetSet :
    DriverReturned(l)
      => \A i \in DOMAIN callLog[l] :
           (callLog[l][i].kind = "batch" /\ callLog[l][i].res = "empty")
             => \A k \in Range(callLog[l][i].keys) :
                  /\ \E j \in DOMAIN callLog[l] :
                       /\ j > i
                       /\ callLog[l][j] = [kind |-> "translate", keys |-> <<k>>, res |-> "ok"]
                  /\ CountKey(newRecords[l], k) = 1

\* C12: the keys of a chunk whose translateBatch call succeeded appear in
\* no call of translate and in no other call of translateBatch of the run,
\* whatever happens to the other chunks.
C12_FallbackConfined ==
  \A l \in TargetSet :
    \A i \in DOMAIN callLog[l] :
      (callLog[l][i].kind = "batch" /\ callLog[l][i].res = "ok")
        => \A j \in DOMAIN callLog[l] :
             j # i => Range(callLog[l][j].keys) \cap Range(callLog[l][i].keys) = {}

C12_Witness ==
  /\ pc["fr"] = "done"
  /\ \E i, j, n \in DOMAIN callLog["fr"] :
       /\ i < j /\ j < n
       /\ callLog["fr"][i].kind = "batch" /\ callLog["fr"][i].res = "ok"
       /\ Len(callLog["fr"][i].keys) = 2
       /\ callLog["fr"][j].kind = "batch" /\ callLog["fr"][j].res = "throw"
       /\ callLog["fr"][n].kind = "translate" /\ callLog["fr"][n].res = "ok"

\* C13: once a call of translate has thrown, by itself or in the fallback of
\* a failed chunk, it is the last backend call of the language, whose
\* pipeline has rejected without a result; and a returned result with
\* changes holds the translation of every candidate.
C13_TranslateFailureRejects ==
  \A l \in TargetSet :
    /\ \A i \in DOMAIN callLog[l] :
         (callLog[l][i].kind = "translate" /\ callLog[l][i].res = "throw")
           => /\ pc[l] = "rejected"
              /\ ~Returned(l)
              /\ i = Len(callLog[l])
              /\ l \notin written
    /\ (Returned(l) /\ result[l].hasChanges)
         => \A n \in DOMAIN candidates[l] :
              \E m \in DOMAIN result[l].updatedRecords :
                /\ result[l].updatedRecords[m].key = candidates[l][n].key
                /\ result[l].updatedRecords[m].text
                     = Translation(candidates[l][n].sourceRecord.text)

C13_Witness ==
  /\ pc["fr"] = "rejected"
  /\ Len(candidates["fr"]) = 3
  /\ Len(callLog["fr"]) = 3
  /\ callLog["fr"][1].kind = "batch" /\ callLog["fr"][1].res = "throw"
  /\ callLog["fr"][2].kind = "translate" /\ callLog["fr"][2].res = "ok"
  /\ callLog["fr"][3].kind = "translate" /\ callLog["fr"][3].res = "throw"
  /\ newRecords["fr"] # <<>>

\* every translation the batch backend returned to l was the one translate
\* returns for the item
BackendsAgree(l) == \A i \in DOMAIN callLog[l] : callLog[l][i].res # "empty"

\* C14: with backends that agree, the records the driver returns, whatever
\* the batch size and whichever chunks fell back, are the records
\* translateIndividually returns for the same candidates, and the result of
\* the language is the sorted merge of the preserved records with them.
C14_BatchSizeEquivalence ==
  \A l \in TargetSet :
    (DriverReturned(l) /\ BackendsAgree(l))
      => /\ newRecords[l] = IndividualRecords(candidates[l])
         /\ Returned(l)
              => result[l].updatedRecords
                   = SortByKey(preserveExistingTranslations(recon[l].filteredExisting, sourceMap)
                                 \o IndividualRecords(candidates[l]))

C14_Witness ==
  /\ batchSize = 2
  /\ Len(candidates["fr"]) = batchSize
  /\ \E i \in DOMAIN candidates["fr"] : candidates["fr"][i].sourceRecord.hash = "hB"
  /\ Returned("fr")
  /\ callLog["fr"] = <<[kind |-> "batch", keys |-> KeysOf(candidates["fr"]), res |-> "ok"]>>
  /\ \E i \in DOMAIN result["fr"].updatedRecords : result["fr"].updatedRecords[i].text = "hand"

\* the calls of translateBatch of l, in order
BatchCalls(l) == SelectSeq(callLog[l], LAMBDA c : c.kind = "batch")

\* the least q with q * b >= n
CeilDiv(n, b) == CHOOSE q \in 0..n : q * b >= n /\ (q - 1) * b < n

\* C15: with batchSize b > 1, the i-th call of translateBatch of a language
\* is made for the candidates (i-1)*b+1 .. min(i*b, N), in their order;
\* at most ceil(N/b) calls are made, and exactly that many, covering every
\* candidate once, when the driver returns.
C15_ConsecutiveChunks ==
  \A l \in TargetSet :
    (batchSize > 1 /\ callLog[l] # <<>>)
      => LET N == Len(candidates[l])
             b == batchSize
             calls == BatchCalls(l)
         IN /\ \A i \in DOMAIN calls :
                 /\ (i - 1) * b + 1 <= N
                 /\ calls[i].keys
                      = [n \in 1..(Min(i * b, N) - (i - 1) * b) |->
                           candidates[l][(i - 1) * b + n].key]
            /\ Len(calls) <= CeilDiv(N, b)
            /\ DriverReturned(l)
                 => /\ Len(calls) = CeilDiv(N, b)
                    /\ \A n \in 1..N :
                         Cardinality({i \in DOMAIN calls :
                                        candidates[l][n].key \in Range(calls[i].keys)}) = 1

C15_Witness ==
  /\ batchSize = 2
  /\ Len(candidates["fr"]) = 3
  /\ DriverReturned("fr")
  /\ Len(BatchCalls("fr")) = 2
  /\ Len(BatchCalls("fr")[1].keys) = 2
  /\ Len(BatchCalls("fr")[2].keys) = 1

\* C16: with batchSize = 1 the i-th backend call of a language is a call of
\* translate for its i-th candidate, translateBatch is never called, and
\* when the driver returns every candidate has had its call.
C16_IndividualMode ==
  batchSize = 1
    => \A l \in TargetSet :
         /\ Len(callLog[l]) <= Len(candidates[l])
         /\ \A i \in DOMAIN callLog[l] :
              /\ callLog[l][i].kind = "translate"
              /\ callLog[l][i].keys = <<candidates[l][i].key>>
         /\ DriverReturned(l) => Len(callLog[l]) = Len(candidates[l])

C16_Witness ==
  /\ batchSize = 1
  /\ Len(candidates["fr"]) = 3
  /\ Len(callLog["fr"]) = 3
  /\ DriverReturned("fr")
  /\ updatedRecords["fr"] # <<>>

\* the configuration has an empty source.file, no target, a target without
\* language or file, or a batchSize that is not a positive integer
ConfigIsInvalid ==
  \/ rawConfig.source.file = ""
  \/ Len(rawConfig.targets) = 0
  \/ \E i \in DOMAIN rawConfig.targets :
       rawConfig.targets[i].language = "" \/ rawConfig.targets[i].file = ""
  \/ /\ rawConfig.batchSize # None
     /\ \/ rawConfig.batchSize.num % rawConfig.batchSize.den # 0
        \/ rawConfig.batchSize.num < rawConfig.batchSize.den

\* C17: called with such a configuration, autotranslate rejects, and it has
\* not read the source file, read a target file, started a pipeline, called
\* the backend or written a file.
C17_InvalidConfigRejectedFirst ==
  ConfigIsInvalid
    => /\ rpc \in {"start", "rejected"}
       /\ sourceRecords = <<>>
       /\ \A l \in Langs :
            /\ pc[l] \in {"idle", "off"}
            /\ ~Reconciled(l)
            /\ callLog[l] = <<>>
       /\ written = {}
       /\ failedOutputs = {}
       /\ targetFile = fileAtStart
       /\ outputFile = outputAtStart

C17_Witness ==
  /\ rpc = "rejected"
  /\ Len(rawConfig.targets) = 2
  /\ rawConfig.targets[1].file # ""
  /\ rawConfig.targets[2].file = ""
  /\ sourceFile # <<>>

\* the keys of a record sequence are in non-decreasing order
SortedByKey(records) ==
  \A i, j \in DOMAIN records : i < j => records[i].key <= records[j].key

\* C18: every target file a run has written holds its records sorted by key
\* in non-decreasing order.
C18_WrittenFilesSorted ==
  \A l \in TargetSet : l \in written => SortedByKey(targetFile[l].rows)

C18_Witness ==
  /\ "fr" \in written
  /\ updatedRecords["fr"] # <<>>
  /\ newRecords["fr"] # <<>>
  /\ ~SortedByKey(updatedRecords["fr"] \o newRecords["fr"])
  /\ ~SortedByKey(newRecords["fr"])

\* C19: when a run has completed with hasChanges = FALSE for a target that
\* lists secondary outputs, each output that did not exist when the run
\* started holds the preserved records (unless its format is not registered
\* or its generation logged an error), and each output that existed is as
\* it was.
C19_MissingOutputsBackfilled ==
  rpc = "done"
    => \A l \in TargetSet :
         (~result[l].hasChanges /\ TargetOutputs(l) # <<>>)
           => \A f \in Range(TargetOutputs(l)) :
                IF ~outputAtStart[f].exists
                THEN (OutputFormat[f] \in SupportedFormats /\ f \notin failedOutputs)
                       => outputFile[f] = FileOf(StringRecords(result[l].updatedRecords))
                ELSE outputFile[f] = outputAtStart[f] /\ f \notin written

\* the secondary outputs the write phase of the run has to generate
OutputsDue ==
  Range(SourceOutputs)
    \cup UNION {Range(TargetOutputs(l)) : l \in {t \in TargetSet : result[t].hasChanges}}

\* C20: an error logged for a secondary output never makes autotranslate
\* reject; an output of a format that is not registered is never written;
\* and when the run has completed every changed target file holds its
\* result and every secondary output that was due and logged no error holds
\* its records.
C20_OutputFailureSkipped ==
  /\ failedOutputs # {} => rpc \in {"writing", "done"}
  /\ \A f \in OutputFiles : OutputFormat[f] \notin SupportedFormats => f \notin written
  /\ rpc = "done"
       => /\ \A l \in TargetSet :
               result[l].hasChanges
                 => /\ l \in written
                    /\ targetFile[l] = writeTargetFile(result[l].updatedRecords)
          /\ \A f \in OutputsDue : f \in written \/ f \in failedOutputs
          /\ \A l \in TargetSet :
               \A f \in Range(TargetOutputs(l)) \cap written :
                 outputFile[f] = FileOf(StringRecords(result[l].updatedRecords))
          /\ \A f \in Range(SourceOutputs) \cap written :
               outputFile[f] = FileOf(StringRecords(sourceRecords))

C20_Witness ==
  /\ rpc = "done"
  /\ failedOutputs = {"src.out", "fr.yaml"}
  /\ "fr.out" \in written
  /\ "fr" \in written
  /\ "de" \in written

\* C21: a pipeline that is in flight when autotranslate has rejected because
\* of another language settles: it returns its result or rejects itself.
C21_OthersRunToEnd ==
  \A l \in Langs :
    (pc[l] \in Running /\ rpc = "rejected") ~> (pc[l] \in {"done", "rejected"})

\* C21, amended: such a pipeline settles unless the process exits, as the
\* one-shot command line does on the rejection of autotranslate.
C21_OthersRunToEndInProcess ==
  \A l \in Langs :
    (pc[l] \in Running /\ rpc = "rejected")
      ~> (pc[l] \in {"done", "rejected"} \/ rpc = "exited")

C21_Witness ==
  /\ rpc = "rejected"
  /\ pc["de"] = "rejected"
  /\ Len(callLog["de"]) = 1
  /\ pc["fr"] = "done"
  /\ Len(callLog["fr"]) = 2
  /\ result["fr"].hasChanges



\* an invocation of autotranslate has not settled, or one of its pipelines
\* is still computing
RunInProgress ==
  \/ rpc \in {"start", "translating", "writing"}
  \/ \E l \in Langs : pc[l] \in Running

\* a pipeline of an earlier invocation is still computing
EarlierRunInProgress == \E l \in Langs : orphan[l]

\* C22: in watch mode the computations of at most one run of autotranslate
\* are in flight at any time.
C22_OneRunInProgress == ~(RunInProgress /\ EarlierRunInProgress)

\* a step that begins an invocation of autotranslate
StartsRun == rpc' = "start" /\ rpc # "start"

\* a step in which the loop of processTranslationUpdates continues after the
\* awaited invocation has settled
SettleStep ==
  /\ isProcessing /\ rpc \in {"done", "rejected"}
  /\ events' = events
  /\ StartsRun \/ ~isProcessing'

\* Events that arrive while a run is in progress start nothing, and when the
\* awaited invocation settles one run starts if and only if at least one
\* event has arrived in the meantime.
C23_Coalesced ==
  [][/\ (events' # events /\ isProcessing) => ~StartsRun
     /\ SettleStep => (StartsRun <=> arrived >= 1)]_vars

\* C23: events that arrive while a run is in progress start nothing; when
\* the awaited invocation settles, one run starts if and only if at least
\* one event has arrived in the meantime, and a run that starts finds no
\* computation of the run before it in flight.
C23_OneRunAfterCompletion ==
  [][/\ (events' # events /\ isProcessing) => ~StartsRun
     /\ SettleStep => (StartsRun <=> arrived >= 1)
     /\ StartsRun => ~RunInProgress]_vars

\* the keys that translateBatch was asked for
RequestedKeys == Range(call.requests)

\* the backend answered with a list of translations that lacks a requested key
OmitsRequestedKey ==
  /\ ~call.response.throws /\ call.response.parsed /\ call.response.listed
  /\ \E k \in RequestedKeys :
       \A i \in DOMAIN call.response.translations : call.response.translations[i].key # k

\* C24: translateBatch rejects or returns a map with an entry for every
\* requested key, and a response that omits a requested key makes it reject
\* with the error Missing translations.
C24_CompleteMapOrRejects ==
  (call.fn = "translateBatch" /\ ~ret.pending) =>
    /\ ret.rejects \/ \A k \in RequestedKeys : k \in DOMAIN ret.value
    /\ OmitsRequestedKey =>
         ret.rejects /\ ret.error = "Missing translations for keys"

C24_Witness ==
  /\ call.fn = "translateBatch"
  /\ call.requests = <<1, 2>>
  /\ call.response.listed /\ Len(call.response.translations) = 1
  /\ call.response.translations[1].key = 1
  /\ ~ret.pending /\ ret.rejects /\ ret.error = "Missing translations for keys"

\* the value of a string of hexadecimal digits of at most 4 characters
RECURSIVE HexValue(_)
HexValue(s) ==
  IF s = <<>> THEN 0
  ELSE 16 * HexValue(SubSeq(s, 1, Len(s) - 1))
         + (CHOOSE d \in 0..15 : HexDigit[d + 1] = s[Len(s)])

\* C25: calculateHash returns 8 lowercase hexadecimal characters, the 32-bit
\* value of the hash in base 16, zero-padded on the left.
C25_EightHexCharacters ==
  (call.fn = "calculateHash" /\ ~ret.pending) =>
    /\ Len(ret.value) = 8
    /\ \A i \in 1..8 : ret.value[i] \in Range(HexDigit)
    /\ HexValue(SubSeq(ret.value, 1, 4)) = call.hash.high
    /\ HexValue(SubSeq(ret.value, 5, 8)) = call.hash.low

C25_Witness ==
  /\ call.fn = "calculateHash"
  /\ call.text = <<>> /\ call.description = <<>>
  /\ call.hash = [high |-> 0, low |-> 255]
  /\ ~ret.pending
  /\ ret.value = <<"0", "0", "0", "0", "0", "0", "f", "f">>

\* the text holds no pipe character
PipeFree(text) == "|" \notin Range(text)

\* C26: no other pair of text and description yields the combined string
\* that calculateHash hashes.
C26_CombinationUnambiguous ==
  (call.fn = "calculateHash" /\ ~ret.pending) =>
    \A text \in HashStrings, description \in HashStrings :
      Combined(text, description) = Combined(call.text, call.description)
        => text = call.text /\ description = call.description

\* C26, amended: among the pairs whose text holds no pipe character, no
\* other pair yields the combined string that calculateHash hashes.
C26_UnambiguousForPipeFreeText ==
  (call.fn = "calculateHash" /\ ~ret.pending /\ PipeFree(call.text)) =>
    \A text \in HashStrings, description \in HashStrings :
      (PipeFree(text) /\ Combined(text, description) = Combined(call.text, call.description))
        => text = call.text /\ description = call.description

C26_Witness ==
  /\ call.fn = "calculateHash"
  /\ call.text = <<"a">> /\ call.description = <<"|", "a">>
  /\ ~ret.pending
  /\ Combined(call.text, call.description) = <<"a", "|", "|", "a">>

\* C27: parseTarget returns the records that writeTarget wrote, in their
\* order.
C27_WriteThenParseIsIdentity ==
  (call.fn = "writeTarget" /\ ~ret.pending) => ret.value = call.records

\* the records of the test of writeTarget are read back as written
C27_TestedRecordsReadBack ==
  (call.fn = "writeTarget" /\ ~ret.pending /\ Range(call.records) \subseteq TestedRecords)
    => ret.value = call.records

\* the backend has answered a call for the key with a translation that the
\* pipeline of l has used
Translated(l, k) ==
  \E i \in DOMAIN callLog[l] :
    /\ k \in Range(callLog[l][i].keys)
    /\ callLog[l][i].res = "ok"

\* C28: in the pipeline of a language a backend call is made only after
\* reconciliation has completed and before the result is returned, and the
\* result is merged and returned in a step that makes no call, when a call
\* has returned a translation for every candidate.
C28_ReconcileTranslateMerge ==
  [][\A l \in Langs :
       /\ (callLog'[l] # callLog[l] /\ callLog'[l] # <<>>)
            => (Reconciled(l) /\ ~Returned(l) /\ ~Returned(l)')
       /\ (~Returned(l) /\ Returned(l)')
            => /\ callLog'[l] = callLog[l]
               /\ Reconciled(l)'
               /\ \A i \in DOMAIN candidates[l] : Translated(l, candidates[l][i].key)]_vars

\* an orphan was removed, the batch call failed, the fallback translated the
\* candidate, and the result was returned
C28_Witness ==
  /\ Returned("fr") /\ result["fr"].hasChanges
  /\ recon["fr"].removedCount = 1
  /\ Len(callLog["fr"]) = 2
  /\ callLog["fr"][1].kind = "batch" /\ callLog["fr"][1].res = "throw"
  /\ callLog["fr"][2].kind = "translate" /\ callLog["fr"][2].res = "ok"

\* C29: the source records of a run are set when the run reads the source
\* and by no step of a pipeline, and every language that has reconciled has
\* computed its candidates from the records of the source file.
C29_OneSourceSnapshot ==
  [][/\ sourceRecords' # sourceRecords => (rpc = "start" \/ rpc' = "start")
     /\ \A l \in Langs :
          Reconciled(l)' =>
            /\ sourceRecords' = sourceFile
            /\ candidates'[l] =
                 identifyTranslationCandidates(sourceFile, recon'[l].existingMap)]_vars

\* fr has translated its two candidates and returned; de has reconciled and
\* found its one candidate in the same source records
C29_Witness ==
  /\ pc["fr"] = "done" /\ Len(callLog["fr"]) >= 1 /\ Len(candidates["fr"]) = 2
  /\ Reconciled("de") /\ Len(candidates["de"]) = 1 /\ callLog["de"] = <<>>
  /\ pc["de"] \in {"individual", "batch"}
  /\ Len(sourceRecords) = 2

\* the calls of the given kind that submitted the key for l, by their
\* positions in the log
Submissions(l, kind, k) ==
  {i \in DOMAIN callLog[l] :
     callLog[l][i].kind = kind /\ k \in Range(callLog[l][i].keys)}

\* C30: a key is in at most one translateBatch request and in at most one
\* translate call of a language, only candidate keys are submitted, and in
\* batch mode translate is called for a key only after the translateBatch
\* call for its chunk has failed.
C30_AtMostTwoSubmissions ==
  \A l \in Langs : \A k \in Keys :
    /\ Cardinality(Submissions(l, "batch", k)) <= 1
    /\ Cardinality(Submissions(l, "translate", k)) <= 1
    /\ Called(l, k) => k \in Range(KeysOf(candidates[l]))
    /\ executeTranslations(batchSize) = "batch" =>
         \A i \in Submissions(l, "translate", k) :
           \E j \in Submissions(l, "batch", k) : j < i /\ callLog[l][j].res # "ok"

\* both keys of a chunk were submitted twice: in the batch that failed and
\* in the fallback
C30_Witness ==
  /\ pc["fr"] = "done"
  /\ Len(callLog["fr"]) = 3
  /\ callLog["fr"][1].kind = "batch" /\ callLog["fr"][1].res = "throw"
  /\ Len(callLog["fr"][1].keys) = 2
  /\ \A k \in Range(callLog["fr"][1].keys) :
       Cardinality(Submissions("fr", "translate", k)) = 1

\* the response lists this translation under the key
ListedUnder(k, text) ==
  \E j \in DOMAIN call.response.translations :
    /\ call.response.translations[j].key = k
    /\ call.response.translations[j].translation = text

\* C31: the records produced for a chunk are one per candidate in candidate
\* order, each with the key and source hash of its candidate and with a
\* translation that the response lists under that key, whatever the order
\* of the response.
C31_LookupByKey ==
  (call.fn = "translateInBatches" /\ ~ret.pending /\ ~ret.rejects) =>
    /\ Len(ret.value) = Len(call.chunk)
    /\ \A i \in DOMAIN call.chunk :
         /\ ret.value[i].key = call.chunk[i].key
         /\ ret.value[i].hash = call.chunk[i].sourceRecord.hash
         /\ ListedUnder(call.chunk[i].key, ret.value[i].text)

\* the response lists key 2 before key 1 and the records come out as 1, 2
C31_Witness ==
  /\ call.fn = "translateInBatches" /\ ~ret.pending /\ ~ret.rejects
  /\ KeysOf(call.chunk) = <<1, 2>>
  /\ call.response.translations =
       <<[key |-> 2, translation |-> "t2"], [key |-> 1, translation |-> "t1"]>>
  /\ ret.value = <<[key |-> 1, text |-> "t1", hash |-> "hA"],
                   [key |-> 2, text |-> "t2", hash |-> "hB"]>>

\* the run has read the source: its pipelines were started
SourceRead == \E l \in TargetSet : pc[l] \notin {"idle", "off"}

\* every source output of a registered format was written in the run, or
\* writing it failed and the error was logged
SourceOutputsGenerated ==
  \A f \in Range(SourceOutputs) :
    OutputFormat[f] \in SupportedFormats => f \in written \cup failedOutputs

\* a run that resolves has generated the source outputs, whether or not a
\* target has changes
C32_GeneratedWhenTargetsSucceed == rpc = "done" => SourceOutputsGenerated

\* C32: a run that has read the source and has ended, resolved or rejected,
\* has generated the source outputs.
C32_SourceOutputsIndependent ==
  (rpc \in {"done", "rejected"} /\ SourceRead) => SourceOutputsGenerated

\* the pipelines that have read the target file f in the run
ReadersOf(f) == {l \in TargetSet : Reconciled(l) /\ TargetFileOf(l) = f}

\* the targets whose records were written to the target file f in the run
WritersOf(f) == {l \in TargetSet : l \in written /\ TargetFileOf(l) = f}

\* C33: in a run every target file is read by at most one pipeline and
\* written for at most one target.
C33_OnePipelinePerFile ==
  \A f \in Langs : Cardinality(ReadersOf(f)) <= 1 /\ Cardinality(WritersOf(f)) <= 1

\* the records of the target file of l, as read when the run started, whose
\* key is in the source and whose hash is the source hash of their key
PreservedAtStart(l) ==
  SelectSeq(ExistingAtStart(l),
            LAMBDA r : r.key \in SourceKeys /\ r.hash = SourceHash(r.key))

\* reconciliation of l found nothing to translate and at least one orphan
OrphansOnly(l) == Reconciled(l) /\ candidates[l] = <<>> /\ recon[l].removedCount >= 1

\* C34: when reconciliation of a language yields no candidate and at least
\* one orphan record, its pipeline has returned without a rejection and
\* without any backend call, with hasChanges = TRUE and exactly the
\* preserved records (sorted by key); the write phase rewrites its target
\* file with these records, none of which is an orphan.
C34_OrphansRemovedWithoutBackend ==
  \A l \in TargetSet :
    OrphansOnly(l)
      => /\ Returned(l)
         /\ pc[l] = "done"
         /\ callLog[l] = <<>>
         /\ result[l].hasChanges
         /\ result[l].updatedRecords = SortByKey(PreservedAtStart(l))
         /\ rpc = "done" => l \in written
         /\ l \in written
              => /\ targetFile[l] = FileOf(SortByKey(PreservedAtStart(l)))
                 /\ Range(KeysOf(targetFile[l].rows)) \subseteq SourceKeys

C34_Witness ==
  /\ rpc = "done"
  /\ OrphansOnly("fr")
  /\ "fr" \in written
  /\ PreservedAtStart("fr") # <<>>
  /\ Len(targetFile["fr"].rows) < Len(fileAtStart["fr"].rows)

\* the number of change events that occurred before the latest call of
\* autotranslate by processTranslationUpdates
EventsBeforeLatestRun == events - arrived

\* C35: in watch mode, when every run terminates, every change event is
\* eventually followed by a call of autotranslate that is made after the
\* event occurred, whether the run in progress at the event resolves or
\* rejects.
C35_NoEventLost ==
  \A n \in 1..MaxEvents : (events = n) ~> (EventsBeforeLatestRun >= n)

C35_Witness ==
  /\ events = 2
  /\ EventsBeforeLatestRun = 2
  /\ isProcessing
  /\ rpc = "start"
  /\ ~prevDone
  /\ \E l \in Langs : orphan[l]

\* a change event arrives while no run is in progress and an earlier run
\* has resolved or rejected
IdleEvent == events' = events + 1 /\ ~isProcessing /\ rpc \in {"done", "rejected"}

\* C36: a change event that arrives while no run is in progress, after an
\* earlier run has completed, starts a run of autotranslate.
C36_IdleEventStartsRun == [][IdleEvent => StartsRun]_vars

\* the promise of autotranslate has resolved or rejected
Settled == rpc \in {"done", "rejected"}

\* the write phase has run to its end
WritePhaseCompleted == wstep = 2 * Len(targets) + 1

\* the failure states of a run
ConfigInvalid == ~validateConfig(FinalConfig(rawConfig))

SourceUnreadable ==
  validateConfig(FinalConfig(rawConfig)) /\ \A l \in Langs : pc[l] = "idle"

TranslationFailed(l) == pc[l] = "rejected"

TargetWriteFailed ==
  /\ \A l \in TargetSet : pc[l] = "done"
  /\ wstep \in 1..Len(targets)

RejectedAsListed ==
  ConfigInvalid \/ SourceUnreadable \/ \E l \in TargetSet : TranslationFailed(l)

\* C37 as stated: every run terminates; it resolves after the write phase
\* has completed, or it rejects with an invalid configuration, an
\* unreadable source or a failed translation of a language.
C37_TerminatesAsListed ==
  /\ <>Settled
  /\ [](rpc = "done" => WritePhaseCompleted)
  /\ [](rpc = "rejected" => RejectedAsListed)

\* C37: when every backend call and every file operation returns or throws,
\* every run terminates; it resolves after the write phase has completed,
\* or it rejects with an invalid configuration, an unreadable source, a
\* failed pipeline of a language, or a target file that could not be
\* written.
C37_Terminates ==
  /\ <>Settled
  /\ [](rpc = "done" => WritePhaseCompleted)
  /\ [](rpc = "rejected" => RejectedAsListed \/ TargetWriteFailed)

C37_Witness ==
  /\ rpc = "rejected"
  /\ TargetWriteFailed
  /\ ~RejectedAsListed
  /\ wstep = 2
  /\ "fr" \in written
====
